---- MODULE Spec2Model ----
(***************************************************************************)
(* Model of the agent coordinator (agentic_ai/orchestrator/coordinator.py), *)
(* of the agents it drives (agentic_ai/agents/base.py and the concrete     *)
(* agents) and of the workflow engine (agentic_ai/orchestrator/workflow.py).*)
(* Coroutines are modelled as processes with a position (pc); one action   *)
(* is one run of a coroutine between two suspension points.                *)
(***************************************************************************)
EXTENDS Integers, Sequences, FiniteSets, TLC

VARIABLES
    agents,          \* AgentCoordinator.agents: insertion-ordered dict, as the sequence of its values
    initialized,     \* BaseAgent._initialized of every agent object
    max_concurrent,  \* AgentCoordinator.max_concurrent
    semaphore,       \* value of AgentCoordinator._semaphore
    waiters,         \* FIFO queue of the coroutines blocked in _semaphore.acquire()
    ops,             \* the calls of the coordinator's entry points made by the application
    last,            \* outcome of the last register_agent / unregister_agent / get_agent call,
                     \* or, for each agent used on its own, of its last initialize / cleanup
    web,             \* what the services behind the agents answer to the query
    wf               \* the call of a WorkflowEngine method made by the application

vars == <<agents, initialized, max_concurrent, semaphore, waiters, ops, last, web, wf>>

-----------------------------------------------------------------------------
(* Bounds of the model *)

MaxConcurrent == 2   \* max_concurrent is drawn from 1..MaxConcurrent
MaxCalls == 2        \* total number of entries (execute_agent calls) submitted
MaxOps == 2          \* number of entry-point calls the application makes

-----------------------------------------------------------------------------
(* Agent objects *)

\* wiki: a WikipediaAgent (execute starts with _validate_initialized).
\* mock1, mock2: two MockAgent objects of the tests, both named "test-agent"
\* (execute returns its dict without looking at _initialized).
AgentObjs == {"wiki", "mock1", "mock2"}

NoAgent == "None"

\* google, watsonx: the GoogleSearchAgent and the WatsonXCrafterAgent, which with
\* wiki are the three agents of the research workflow.
PipelineAgents == <<"google", "wiki", "watsonx">>

NameOf(ag) ==
    CASE ag = "wiki" -> "wikipedia-agent"
      [] ag = "google" -> "google-search-agent"
      [] ag \in {"watsonx", "echo"} -> "watsonx-crafter-agent"
      [] OTHER -> "test-agent"

\* Does ag.execute begin with self._validate_initialized() ?
Validates(ag) == ag \in {"wiki", "google", "watsonx"}

\* Does the agent own an httpx client, closed by its cleanup ?
HasClient(ag) == ag \in {"wiki", "google"}

\* Names a caller may ask for: the two agent names and one no agent has.
Names == {"wikipedia-agent", "test-agent", "missing-agent"}

-----------------------------------------------------------------------------
(* Exceptions: AgenticAIError(message, details) and plain Exception(message) *)

NoError == [type |-> "none"]

NoDetails == [keys |-> {}]

\* str(e): AgenticAIError.__str__ appends the details when there are any;
\* a plain exception prints its message.
Str(e) ==
    IF e.type \in {"AgentError", "OrchestrationError", "AuthenticationError"} /\ e.details.keys # {}
    THEN [message |-> e.message, suffix |-> "| Details:", details |-> e.details]
    ELSE [message |-> e.message, suffix |-> "", details |-> NoDetails]

\* BaseAgent._validate_initialized: the AgentError it raises.
NotInitializedError(ag) ==
    [type |-> "AgentError",
     message |-> [fmt |-> "Agent {} is not initialized. Call initialize() first.",
                  arg |-> NameOf(ag)],
     details |-> [keys |-> {"agent"}, agent |-> NameOf(ag)]]

\* The AgentError a concrete agent raises when its downstream request fails.
DownstreamAgentError(ag, task) ==
    [type |-> "AgentError",
     message |-> [fmt |-> "Failed to retrieve Wikipedia content: {}", arg |-> "cause"],
     details |-> [keys |-> {"agent", "query", "error"},
                  agent |-> NameOf(ag), query |-> task, error |-> "cause"]]

\* An exception that is no AgenticAIError, raised outside the agent's own try block.
PlainException ==
    [type |-> "Exception",
     message |-> [fmt |-> "{}", arg |-> "boom"],
     details |-> NoDetails]

-----------------------------------------------------------------------------
(* Outcomes of a coroutine: nothing yet, a returned value or a raised exception *)

\* The dict an agent's execute returns: which agent object produced it, for which task.
Result(ag, task) == [by |-> ag, task |-> task]

NoResult == [by |-> NoAgent, task |-> 0]

Pending == [kind |-> "none", value |-> NoResult, err |-> NoError]

Return(v) == [kind |-> "return", value |-> v, err |-> NoError]

Raise(e) == [kind |-> "raise", value |-> NoResult, err |-> e]

-----------------------------------------------------------------------------
(* The registry: AgentCoordinator.agents *)

\* list(self.agents.keys())
Keys(reg) == [i \in 1..Len(reg) |-> NameOf(reg[i])]

KeySet(reg) == {NameOf(reg[i]) : i \in 1..Len(reg)}

\* A lookup that falls back to the first registered agent for a name that is no key.
getAgentOrFirst(reg, name) ==
    IF name \in KeySet(reg)
    THEN reg[CHOOSE i \in 1..Len(reg) : NameOf(reg[i]) = name]
    ELSE IF Len(reg) > 0 THEN reg[1] ELSE NoAgent

\* AgentCoordinator.get_agent: self.agents.get(name)
get_agent(reg, name) ==
    IF name \in KeySet(reg)
    THEN reg[CHOOSE i \in 1..Len(reg) : NameOf(reg[i]) = name]
    ELSE NoAgent

\* del self.agents[name]
Remove(reg, name) ==
    LET keep == {i \in 1..Len(reg) : NameOf(reg[i]) # name}
        F[i \in 0..Len(reg)] ==
            IF i = 0 THEN <<>>
            ELSE IF i \in keep THEN Append(F[i - 1], reg[i]) ELSE F[i - 1]
    IN F[Len(reg)]

\* The OrchestrationError of register_agent for a name that is already a key.
DuplicateError(ag) ==
    [type |-> "OrchestrationError",
     message |-> [fmt |-> "Agent with name '{}' is already registered", arg |-> NameOf(ag)],
     details |-> [keys |-> {"agent"}, agent |-> NameOf(ag)]]

\* A not-found error built like the duplicate error: the name, no list of keys.
NotFoundErrorNameOnly(reg, name) ==
    [type |-> "OrchestrationError",
     message |-> [fmt |-> "Agent '{}' not found", arg |-> name],
     details |-> [keys |-> {"agent"}, agent |-> name]]

\* The OrchestrationError of execute_agent for a name that is no key.
NotFoundError(reg, name) ==
    [type |-> "OrchestrationError",
     message |-> [fmt |-> "Agent '{}' not found", arg |-> name],
     details |-> [keys |-> {"agent", "registered_agents"},
                  agent |-> name, registered_agents |-> Keys(reg)]]

\* The OrchestrationError execute_agent raises from its except clause.
ExecutionFailedError(name, task, e) ==
    [type |-> "OrchestrationError",
     message |-> [fmt |-> "Agent '{}' execution failed: {}", arg |-> name, cause |-> Str(e)],
     details |-> [keys |-> {"agent", "task", "error"},
                  agent |-> name, task |-> task, error |-> Str(e)]]

\* The OrchestrationError execute_parallel raises from its except clause.
ParallelFailedError(n, e) ==
    [type |-> "OrchestrationError",
     message |-> [fmt |-> "Parallel execution failed: {}", cause |-> Str(e)],
     details |-> [keys |-> {"num_tasks", "error"}, num_tasks |-> n, error |-> Str(e)]]

-----------------------------------------------------------------------------
(* Coroutines: one execute_agent call per entry, owned by an entry-point call *)

OpIds == 1..MaxOps

\* A piece of text: what it is the text of, and of which item.
Text(of, n) == [of |-> of, n |-> n]

\* Python's None, and the empty string, as values of a text field.
None == Text("None", 0)

EmptyString == Text("", 0)

\* Truth value of a text field, as in "if wiki_data.get('extract'):".
Truthy(v) == v \notin {None, EmptyString}

\* The context dict of a call: its keys, and the values the model follows.
NoContext == [keys |-> {}, source_data |-> <<>>, max_tokens |-> 0, previous_results |-> <<>>]

\* The coroutine self.execute_agent(name, task, context), not yet run.
NewCall(name, task) ==
    [pc |-> "start",       \* start, waiting (in acquire), running (in agent.execute), done
     name |-> name,
     task |-> task,
     context |-> NoContext,
     agent |-> NoAgent,    \* the local variable agent
     initAtCall |-> FALSE, \* spy: agent._initialized when agent.execute was invoked
     down |-> "none",      \* spy: how the agent's downstream request ended
     inner |-> Pending,    \* outcome of agent.execute
     out |-> Pending]      \* outcome of execute_agent

IdleOp ==
    [kind |-> "none",      \* one = execute_agent, par = execute_parallel, seq = execute_sequential
     tasks |-> <<>>,       \* the argument: sequence of <<agent_name, task>>
     calls |-> <<>>,       \* the execute_agent coroutines created so far, by entry index
     st |-> "idle",        \* idle, active, returned, raised
     results |-> <<>>,     \* the local list results of execute_sequential
     first |-> 0,          \* gather: index of the first child that raised, 0 if none
     order |-> <<>>,       \* spy: the entry indices in the order their calls ended
     ended |-> 0,          \* spy: how many calls had ended when the caller was resumed
     value |-> <<>>,       \* what the caller received on return
     phase |-> "none",     \* async with: enter, body, exit, left, or failed (on entry);
                           \* execute_custom_workflow: again, for a second run of a step list
     body |-> Pending,     \* async with: how the body ended
     aggregator |-> "None", \* execute_custom_workflow: the argument result_aggregator
     err |-> NoError]      \* what the caller received on raise

\* The task text of entry i: "task 1", "task 2", ... as in the tests.
TaskText(i) == i

TasksOf(names) == [i \in 1..Len(names) |-> <<names[i], TaskText(i)>>]

SeqsUpTo(S, n) == UNION {[1..k -> S] : k \in 0..n}

\* What an entry-point call costs of the budget MaxCalls: its entries, and one
\* for a call with an empty list.
Cost(n) == IF n = 0 THEN 1 ELSE n

Submitted == LET F[o \in 0..MaxOps] ==
                   IF o = 0 THEN 0
                   ELSE IF ops[o].st = "idle" THEN F[o - 1]
                   ELSE F[o - 1] + Cost(Len(ops[o].tasks))
             IN F[MaxOps]

\* Entry-point calls are made in slot order, within the budget of entries.
MaySubmit(o, n) ==
    /\ ops[o].st = "idle"
    /\ \A p \in OpIds : p < o => ops[p].st # "idle"
    /\ Submitted + Cost(n) <= MaxCalls

-----------------------------------------------------------------------------
(* asyncio.Semaphore as used by "async with self._semaphore" *)

\* locked() that lets a caller through while the value is zero.
lockedBelowZero(sem, wq) == sem < 0

\* Semaphore.locked(): no permit left, or earlier coroutines are queued for one.
locked(sem, wq) == sem = 0 \/ wq # <<>>

\* __aenter__: acquire takes one permit.
Acquired(sem) == sem - 1

\* A release placed after the body instead of in a finally/__aexit__: skipped
\* when the body raises.
ReleasedOnReturnOnly(sem, outcome) == IF outcome.kind = "return" THEN sem + 1 ELSE sem

\* __aexit__: release gives the permit back, whatever the outcome of the body.
Released(sem, outcome) == sem + 1

\* The permits held: coroutines inside the "async with" body.
Running == {oi \in OpIds \X (1..MaxCalls) :
              /\ oi[2] <= Len(ops[oi[1]].calls)
              /\ ops[oi[1]].calls[oi[2]].pc = "running"}

-----------------------------------------------------------------------------
(* Agents: BaseAgent and its subclasses *)

\* How the downstream request of agent.execute can end.  A MockAgent has none and
\* returns its dict; a concrete agent returns, raises AgentError from its except
\* clauses, or raises a plain exception from the code outside its try block.
Downstream(ag) == IF Validates(ag) THEN {"ok", "agent_error", "exception"} ELSE {"ok"}

\* BaseAgent._validate_initialized, as called first thing by the concrete agents.
validate_initialized(ag, init) ==
    IF Validates(ag) /\ ~init[ag] THEN Raise(NotInitializedError(ag)) ELSE Pending

\* The outcome of agent.execute(task, context) once its downstream request ended.
AgentOutcome(ag, task, down) ==
    CASE down = "ok" -> Return(Result(ag, task))
      [] down = "agent_error" -> Raise(DownstreamAgentError(ag, task))
      [] OTHER -> Raise(PlainException)

\* An except clause that names AgentError only: other exceptions pass unwrapped.
WrappedAgentErrorOnly(c, inner) ==
    IF inner.kind = "return"
    THEN Return(inner.value)
    ELSE IF inner.err.type = "AgentError"
    THEN Raise(ExecutionFailedError(c.name, c.task, inner.err))
    ELSE Raise(inner.err)

\* The try/except of execute_agent around agent.execute.
Wrapped(c, inner) ==
    IF inner.kind = "return"
    THEN Return(inner.value)
    ELSE Raise(ExecutionFailedError(c.name, c.task, inner.err))

-----------------------------------------------------------------------------
(* What the end of an execute_agent coroutine does to the call that awaits it *)

\* Results collected as the children end (as asyncio.as_completed would give them).
ResultsAsCompleted(op) == [k \in 1..Len(op.order) |-> op.calls[op.order[k]].out.value]

\* asyncio.gather(..., return_exceptions=False): the values of the children in
\* the order of the awaitables passed in.
GatherResults(op) == [i \in 1..Len(op.calls) |-> op.calls[i].out.value]

\* A loop that catches the failure of an entry and goes on with the next one.
SequentialContinues(op, c) ==
    LET i == Len(op.calls) IN
    IF i = Len(op.tasks)
    THEN [op EXCEPT !.st = "returned", !.value = op.results]
    ELSE [op EXCEPT !.calls = Append(@, NewCall(op.tasks[i + 1][1], op.tasks[i + 1][2]))]

\* A failure that hands the results completed so far to the caller with the exception.
SequentialRaisedWithResults(op, c) ==
    [op EXCEPT !.st = "raised", !.err = c.out.err, !.value = op.results]

\* execute_sequential when its await raises: the exception leaves the frame and
\* the local list results goes with it.
SequentialRaised(op, c) ==
    [op EXCEPT !.st = "raised", !.err = c.out.err, !.results = <<>>, !.value = <<>>]

\* execute_sequential when its await returns: append, then the next iteration
\* creates the coroutine of the next entry, or the loop ends and the list is returned.
SequentialReturned(op, i, c) ==
    LET res == Append(op.results, c.out.value) IN
    IF i = Len(op.tasks)
    THEN [op EXCEPT !.results = res, !.st = "returned", !.value = res]
    ELSE [op EXCEPT !.results = res,
                    !.calls = Append(@, NewCall(op.tasks[i + 1][1], op.tasks[i + 1][2]))]

\* results[idx] for an idx that is no index of the list.
IndexError ==
    [type |-> "IndexError",
     message |-> [fmt |-> "{}", arg |-> "list index out of range"],
     details |-> NoDetails]

\* Python's results[idx]: valid for -len <= idx < len, a negative idx counting
\* from the end of the list.
IndexInRange(idx, n) == -n <= idx /\ idx < n

ListItem(results, idx) ==
    IF idx >= 0 THEN results[idx + 1] ELSE results[Len(results) + idx + 1]

\* A context that gets the results so far whether the step asks for them or not.
StepContextAlways(depends_on, results) ==
    [NoContext EXCEPT !.keys = {"previous_results"}, !.previous_results = results]

\* The context of a step: previous_results is added when depends_on is not empty.
StepContext(depends_on, results) ==
    IF depends_on = <<>>
    THEN NoContext
    ELSE [NoContext EXCEPT !.keys = {"previous_results"},
                           !.previous_results =
                               [k \in 1..Len(depends_on) |-> ListItem(results, depends_on[k])]]

\* The dict step.get("context", {}) gives when the step has no "context": a new
\* one, not an object of the caller.
NoStepContext == [given |-> FALSE, keys |-> {}, previous_results |-> <<>>]

\* An injection that extends the list already under the key.
InjectedAccumulating(context, depends_on, results) ==
    IF depends_on # <<>> /\ context.given
    THEN [context EXCEPT !.keys = @ \cup {"previous_results"},
                         !.previous_results =
                             @ \o [k \in 1..Len(depends_on) |-> ListItem(results, depends_on[k])]]
    ELSE context

\* The caller's context mapping of a step after
\* context["previous_results"] = [results[idx] for idx in depends_on].
Injected(context, depends_on, results) ==
    IF depends_on # <<>> /\ context.given
    THEN [context EXCEPT !.keys = @ \cup {"previous_results"},
                         !.previous_results =
                             [k \in 1..Len(depends_on) |-> ListItem(results, depends_on[k])]]
    ELSE context

\* A loop that starts, with step i, the step after it when that one is flagged
\* parallel.
CustomIterationHonouringParallel(op, i) ==
    LET call(j) == NewCall(op.tasks[j][1], op.tasks[j][2]) IN
    IF i < Len(op.tasks) /\ op.tasks[i + 1][3]
    THEN [op EXCEPT !.calls = @ \o <<call(i), call(i + 1)>>]
    ELSE [op EXCEPT !.calls = Append(@, call(i))]

\* One iteration of the loop of execute_custom_workflow, for step i, up to its
\* await of execute_agent: the entry <<agent, task, parallel, depends_on, context>>
\* is read but for its flag; a dependency on a result that is not there raises;
\* the key is set in the step's own context mapping.
CustomIteration(op, i) ==
    LET depends_on == op.tasks[i][4] IN
    IF \E k \in 1..Len(depends_on) : ~IndexInRange(depends_on[k], Len(op.results))
    THEN [op EXCEPT !.st = "raised", !.err = IndexError, !.results = <<>>]
    ELSE [op EXCEPT !.calls = Append(@, [NewCall(op.tasks[i][1], op.tasks[i][2]) EXCEPT
                                          !.context = StepContext(depends_on, op.results)]),
                    !.tasks[i][5] = Injected(@, depends_on, op.results)]

\* The aggregator a caller passes: a function that wraps the list it is given.
Aggregated(results) == [keys |-> {"aggregated"}, aggregated |-> results]

\* A return that leaves the aggregator out.
CustomReturnValueRaw(aggregator, results, total_steps) ==
    [keys |-> {"steps", "total_steps"}, steps |-> results, total_steps |-> total_steps]

\* What execute_custom_workflow returns after its loop: the output of the
\* aggregator if one is given, else the results with the number of steps.
CustomReturnValue(aggregator, results, total_steps) ==
    IF aggregator # "None"
    THEN Aggregated(results)
    ELSE [keys |-> {"steps", "total_steps"}, steps |-> results, total_steps |-> total_steps]

\* A workflow that catches the failure of a step and returns what it has.
CustomRaisedReturningPartial(op, c) ==
    [op EXCEPT !.st = "returned",
               !.value = CustomReturnValue(op.aggregator, op.results, Len(op.tasks))]

\* execute_custom_workflow when its await raises.
CustomRaised(op, c) ==
    [op EXCEPT !.st = "raised", !.err = c.out.err, !.results = <<>>, !.value = <<>>]

\* execute_custom_workflow when its await returns: append, then the next
\* iteration, or the dict with the results is returned (no aggregator given).
CustomReturned(op, i, c) ==
    LET res == Append(op.results, c.out.value) IN
    IF i = Len(op.tasks)
    THEN [op EXCEPT !.results = res, !.st = "returned",
                    !.value = CustomReturnValue(op.aggregator, res, Len(op.tasks))]
    ELSE CustomIteration([op EXCEPT !.results = res], i + 1)

\* The entry-point call op after its child i ended as c.
Finish(op, i, c) ==
    LET op1 == [op EXCEPT !.calls[i] = c, !.order = Append(@, i)] IN
    CASE op.kind = "one" ->
           IF c.out.kind = "return"
           THEN [op1 EXCEPT !.st = "returned", !.value = <<c.out.value>>]
           ELSE [op1 EXCEPT !.st = "raised", !.err = c.out.err]
      [] op.kind = "seq" ->
           IF c.out.kind = "return"
           THEN SequentialReturned(op1, i, c)
           ELSE SequentialRaised(op1, c)
      [] op.kind = "custom" ->
           IF c.out.kind = "return"
           THEN CustomReturned(op1, i, c)
           ELSE CustomRaised(op1, c)
      [] OTHER ->
           IF c.out.kind = "raise" /\ op.first = 0
           THEN [op1 EXCEPT !.first = i]
           ELSE op1

-----------------------------------------------------------------------------
(* Entry points of the coordinator *)

\* await coordinator.execute_agent(name, task)
execute_agent(o, name) ==
    /\ MaySubmit(o, 1)
    /\ ops' = [ops EXCEPT ![o] = [IdleOp EXCEPT !.kind = "one", !.st = "active",
                                     !.tasks = TasksOf(<<name>>),
                                     !.calls = <<NewCall(name, TaskText(1))>>]]
    /\ UNCHANGED <<agents, initialized, max_concurrent, semaphore, waiters, last, web, wf>>

\* await coordinator.execute_parallel(tasks): gather creates one task per entry.
execute_parallel(o, names) ==
    /\ MaySubmit(o, Len(names))
    /\ ops' = [ops EXCEPT ![o] = [IdleOp EXCEPT !.kind = "par", !.st = "active",
                                     !.tasks = TasksOf(names),
                                     !.calls = [i \in 1..Len(names) |->
                                                  NewCall(names[i], TaskText(i))]]]
    /\ UNCHANGED <<agents, initialized, max_concurrent, semaphore, waiters, last, web, wf>>

\* await coordinator.execute_sequential(tasks): the loop reaches its first await,
\* or returns the empty list when there is no entry.
execute_sequential(o, names) ==
    /\ MaySubmit(o, Len(names))
    /\ ops' = [ops EXCEPT ![o] =
                 IF names = <<>>
                 THEN [IdleOp EXCEPT !.kind = "seq", !.st = "returned"]
                 ELSE [IdleOp EXCEPT !.kind = "seq", !.st = "active",
                                     !.tasks = TasksOf(names),
                                     !.calls = <<NewCall(names[1], TaskText(1))>>]]
    /\ UNCHANGED <<agents, initialized, max_concurrent, semaphore, waiters, last, web, wf>>

-----------------------------------------------------------------------------
(* Steps of an execute_agent coroutine *)

\* An "async with" body whose rejected call leaves without giving the permit back.
EnterLeakingOnReject(o, i, c) ==
    LET c1 == [c EXCEPT !.initAtCall = initialized[c.agent]]
        rejected == validate_initialized(c.agent, initialized)
    IN IF rejected.kind = "raise"
       THEN LET c2 == [c1 EXCEPT !.pc = "done", !.inner = rejected,
                                 !.out = Wrapped(c1, rejected)]
            IN /\ ops' = [ops EXCEPT ![o] = Finish(@, i, c2)]
               /\ semaphore' = Acquired(semaphore)
       ELSE /\ ops' = [ops EXCEPT ![o].calls[i] = [c1 EXCEPT !.pc = "running"]]
            /\ semaphore' = Acquired(semaphore)

\* "async with self._semaphore:" entered, agent.execute invoked: the agent
\* rejects the call at once, or suspends in its downstream request.
Enter(o, i, c) ==
    LET c1 == [c EXCEPT !.initAtCall = initialized[c.agent]]
        rejected == validate_initialized(c.agent, initialized)
    IN IF rejected.kind = "raise"
       THEN LET c2 == [c1 EXCEPT !.pc = "done", !.inner = rejected,
                                 !.out = Wrapped(c1, rejected)]
            IN /\ ops' = [ops EXCEPT ![o] = Finish(@, i, c2)]
               /\ semaphore' = Released(Acquired(semaphore), c2.out)
       ELSE /\ ops' = [ops EXCEPT ![o].calls[i] = [c1 EXCEPT !.pc = "running"]]
            /\ semaphore' = Acquired(semaphore)

\* An execute_agent that enters "async with self._semaphore" before it looks the
\* name up and leaves a permit taken when the name is no key.
StartLookupUnderPermit(o, i) ==
    /\ i \in 1..Len(ops[o].calls)
    /\ ops[o].calls[i].pc = "start"
    /\ LET c == ops[o].calls[i]
           agent == get_agent(agents, c.name)
       IN IF agent = NoAgent
          THEN /\ ops' = [ops EXCEPT ![o] =
                            Finish(@, i, [c EXCEPT !.pc = "done",
                                                   !.out = Raise(NotFoundError(agents, c.name))])]
               /\ semaphore' = Acquired(semaphore)
               /\ UNCHANGED waiters
          ELSE IF locked(semaphore, waiters)
          THEN /\ ops' = [ops EXCEPT ![o].calls[i] =
                            [c EXCEPT !.pc = "waiting", !.agent = agent]]
               /\ waiters' = Append(waiters, <<o, i>>)
               /\ UNCHANGED semaphore
          ELSE /\ Enter(o, i, [c EXCEPT !.agent = agent])
               /\ UNCHANGED waiters
    /\ UNCHANGED <<agents, initialized, max_concurrent, last, web, wf>>

\* execute_agent from its first line to its first suspension.
Start(o, i) ==
    /\ i \in 1..Len(ops[o].calls)
    /\ ops[o].calls[i].pc = "start"
    /\ LET c == ops[o].calls[i]
           agent == get_agent(agents, c.name)
       IN IF agent = NoAgent
          THEN /\ ops' = [ops EXCEPT ![o] =
                            Finish(@, i, [c EXCEPT !.pc = "done",
                                                   !.out = Raise(NotFoundError(agents, c.name))])]
               /\ UNCHANGED <<semaphore, waiters>>
          ELSE IF locked(semaphore, waiters)
          THEN /\ ops' = [ops EXCEPT ![o].calls[i] =
                            [c EXCEPT !.pc = "waiting", !.agent = agent]]
               /\ waiters' = Append(waiters, <<o, i>>)
               /\ UNCHANGED semaphore
          ELSE /\ Enter(o, i, [c EXCEPT !.agent = agent])
               /\ UNCHANGED waiters
    /\ UNCHANGED <<agents, initialized, max_concurrent, last, web, wf>>

\* A coroutine that looks its agent up again when it wakes with the permit.
ResumeLookingUpAgain(o, i) ==
    /\ waiters # <<>>
    /\ Head(waiters) = <<o, i>>
    /\ semaphore > 0
    /\ waiters' = Tail(waiters)
    /\ LET c == ops[o].calls[i]
           agent == get_agent(agents, c.name)
       IN IF agent = NoAgent
          THEN /\ ops' = [ops EXCEPT ![o] =
                            Finish(@, i, [c EXCEPT !.pc = "done", !.agent = NoAgent,
                                                   !.out = Raise(NotFoundError(agents, c.name))])]
               /\ UNCHANGED semaphore
          ELSE Enter(o, i, [c EXCEPT !.agent = agent])
    /\ UNCHANGED <<agents, initialized, max_concurrent, last, web, wf>>

\* The first queued coroutine gets a permit that became free.  (Whether release
\* reserves the permit for it or it takes the permit on waking, no other
\* coroutine can take that permit: locked() holds while the queue is non-empty.)
Resume(o, i) ==
    /\ waiters # <<>>
    /\ Head(waiters) = <<o, i>>
    /\ semaphore > 0
    /\ waiters' = Tail(waiters)
    /\ Enter(o, i, ops[o].calls[i])
    /\ UNCHANGED <<agents, initialized, max_concurrent, last, web, wf>>

\* An execute_agent that returns to its caller with the permit still taken.
CompleteKeepingPermit(o, i) ==
    /\ i \in 1..Len(ops[o].calls)
    /\ ops[o].calls[i].pc = "running"
    /\ \E down \in Downstream(ops[o].calls[i].agent) :
         LET c == ops[o].calls[i]
             inner == AgentOutcome(c.agent, c.task, down)
             c2 == [c EXCEPT !.pc = "done", !.down = down, !.inner = inner,
                             !.out = Wrapped(c, inner)]
         IN ops' = [ops EXCEPT ![o] = Finish(@, i, c2)]
    /\ UNCHANGED <<agents, initialized, max_concurrent, semaphore, waiters, last, web, wf>>

\* agent.execute ends; execute_agent returns its result or raises the wrapped
\* failure; the "async with" block is left.
Complete(o, i) ==
    /\ i \in 1..Len(ops[o].calls)
    /\ ops[o].calls[i].pc = "running"
    /\ \E down \in Downstream(ops[o].calls[i].agent) :
         LET c == ops[o].calls[i]
             inner == AgentOutcome(c.agent, c.task, down)
             c2 == [c EXCEPT !.pc = "done", !.down = down, !.inner = inner,
                             !.out = Wrapped(c, inner)]
         IN /\ ops' = [ops EXCEPT ![o] = Finish(@, i, c2)]
            /\ semaphore' = Released(semaphore, c2.out)
    /\ UNCHANGED <<agents, initialized, max_concurrent, waiters, last, web, wf>>

\* A gather that cancels the children still pending when one of them raises
\* (what asyncio.TaskGroup does).
GatherRaisedCancelling(op) ==
    [op EXCEPT !.st = "raised",
               !.ended = Len(op.order),
               !.err = ParallelFailedError(Len(op.tasks), op.calls[op.first].out.err),
               !.calls = [i \in 1..Len(op.calls) |->
                            IF op.calls[i].pc = "done" THEN op.calls[i]
                            ELSE [op.calls[i] EXCEPT !.pc = "cancelled"]]]

\* execute_parallel when gather raises the first exception of a child: the
\* except clause wraps it; the other children are left as they are.
GatherRaised(op) ==
    [op EXCEPT !.st = "raised",
               !.ended = Len(op.order),
               !.err = ParallelFailedError(Len(op.tasks), op.calls[op.first].out.err)]

\* execute_parallel resumes from its await of gather: the first exception of a
\* child, wrapped, or the list of all results.
GatherResume(o) ==
    /\ ops[o].kind = "par"
    /\ ops[o].st = "active"
    /\ LET op == ops[o] IN
       IF op.first # 0
       THEN ops' = [ops EXCEPT ![o] = GatherRaised(op)]
       ELSE /\ \A i \in 1..Len(op.calls) : op.calls[i].out.kind = "return"
            /\ ops' = [ops EXCEPT ![o].st = "returned",
                                  ![o].ended = Len(op.order),
                                  ![o].value = GatherResults(op)]
    /\ UNCHANGED <<agents, initialized, max_concurrent, semaphore, waiters, last, web, wf>>

-----------------------------------------------------------------------------
(* Execution on a populated registry *)

NoCall == [op |-> "none", arg |-> "", found |-> NoAgent, err |-> NoError]

\* The answers of the services when no workflow reads them: no search item, an
\* article with an extract, no token generated.
NoWeb == [items |-> 0, article |-> "found", tokens |-> 0]

\* A dict not received yet.
NoDict == [keys |-> {}]

\* No call of the workflow engine.
NoWorkflow ==
    [kind |-> "none",            \* research = execute_research_workflow, custom = execute_custom_workflow
     pc |-> "idle",              \* idle, gathering, synthesizing, returned, raised
     search_results |-> NoDict,  \* locals of execute_research_workflow
     wiki_data |-> NoDict,
     source_data |-> <<>>,
     result |-> NoDict,          \* what the caller received on return
     err |-> NoError]            \* what the caller received on raise

\* The registry of the tests: both agents registered, each initialized or not.
Init ==
    /\ agents = <<"wiki", "mock1">>
    /\ initialized \in {[ag \in AgentObjs |-> FALSE], [ag \in AgentObjs |-> ag # "mock2"]}
    /\ max_concurrent \in 1..MaxConcurrent
    /\ semaphore = max_concurrent
    /\ waiters = <<>>
    /\ ops = [o \in OpIds |-> IdleOp]
    /\ last = NoCall
    /\ web = NoWeb
    /\ wf = NoWorkflow

Next ==
    \/ \E o \in OpIds, name \in Names : execute_agent(o, name)
    \/ \E o \in OpIds, names \in SeqsUpTo(Names, MaxCalls) : execute_parallel(o, names)
    \/ \E o \in OpIds, names \in SeqsUpTo(Names, MaxCalls) : execute_sequential(o, names)
    \/ \E o \in OpIds, i \in 1..MaxCalls : Start(o, i)
    \/ \E o \in OpIds, i \in 1..MaxCalls : Resume(o, i)
    \/ \E o \in OpIds, i \in 1..MaxCalls : Complete(o, i)
    \/ \E o \in OpIds : GatherResume(o)

Spec == Init /\ [][Next]_vars

\* The event loop runs every coroutine that is ready: one that was created, one
\* whose permit became free, one whose children ended; and every agent.execute
\* that was invoked ends.
Fairness ==
    /\ \A i \in 1..MaxCalls :
           WF_vars(Start(1, i)) /\ WF_vars(Resume(1, i)) /\ WF_vars(Complete(1, i))
    /\ WF_vars(GatherResume(1))

\* One caller awaits one execute_parallel batch.
NextBatch ==
    \/ \E names \in SeqsUpTo(Names, MaxCalls) : execute_parallel(1, names)
    \/ \E i \in 1..MaxCalls : Start(1, i)
    \/ \E i \in 1..MaxCalls : Resume(1, i)
    \/ \E i \in 1..MaxCalls : Complete(1, i)
    \/ GatherResume(1)

SpecBatch == Init /\ [][NextBatch]_vars /\ Fairness

-----------------------------------------------------------------------------
(* Registration: the registry changes while one caller uses execute_agent *)

\* self.agents[agent.name] = agent without the membership test: a dict
\* assignment replaces the value of an existing key in place.
registerOverwrites(reg, ag) ==
    IF NameOf(ag) \in KeySet(reg)
    THEN [agents |-> [i \in 1..Len(reg) |-> IF NameOf(reg[i]) = NameOf(ag) THEN ag ELSE reg[i]],
          err |-> NoError]
    ELSE [agents |-> Append(reg, ag), err |-> NoError]

\* AgentCoordinator.register_agent: the registry afterwards and the exception raised.
register(reg, ag) ==
    IF NameOf(ag) \in KeySet(reg)
    THEN [agents |-> reg, err |-> DuplicateError(ag)]
    ELSE [agents |-> Append(reg, ag), err |-> NoError]

register_agent(ag) ==
    /\ agents' = register(agents, ag).agents
    /\ last' = [op |-> "register", arg |-> ag, found |-> get_agent(agents, NameOf(ag)),
                 err |-> register(agents, ag).err]
    /\ UNCHANGED <<initialized, max_concurrent, semaphore, waiters, ops, web, wf>>

\* del self.agents[name] without the membership test: a KeyError for a name
\* that is no key.
unregisterUnguarded(reg, name) ==
    IF name \in KeySet(reg)
    THEN [agents |-> Remove(reg, name), err |-> NoError]
    ELSE [agents |-> reg, err |-> [type |-> "KeyError", message |-> name, details |-> NoDetails]]

\* AgentCoordinator.unregister_agent: the registry afterwards and the exception raised.
unregister(reg, name) ==
    IF name \in KeySet(reg)
    THEN [agents |-> Remove(reg, name), err |-> NoError]
    ELSE [agents |-> reg, err |-> NoError]

unregister_agent(name) ==
    /\ agents' = unregister(agents, name).agents
    /\ last' = [op |-> "unregister", arg |-> name, found |-> get_agent(agents, name),
                 err |-> unregister(agents, name).err]
    /\ UNCHANGED <<initialized, max_concurrent, semaphore, waiters, ops, web, wf>>

\* A caller of AgentCoordinator.get_agent: the value returned is kept in last.found.
lookup(name) ==
    /\ last' = [op |-> "lookup", arg |-> name, found |-> get_agent(agents, name),
                 err |-> NoError]
    /\ UNCHANGED <<agents, initialized, max_concurrent, semaphore, waiters, ops, web, wf>>

\* A new coordinator; the agent objects exist, all initialized or none.
InitRegistry ==
    /\ agents = <<>>
    /\ initialized \in {[ag \in AgentObjs |-> FALSE], [ag \in AgentObjs |-> TRUE]}
    /\ max_concurrent \in 1..MaxConcurrent
    /\ semaphore = max_concurrent
    /\ waiters = <<>>
    /\ ops = [o \in OpIds |-> IdleOp]
    /\ last = NoCall
    /\ web = NoWeb
    /\ wf = NoWorkflow

NextRegistry ==
    \/ \E ag \in AgentObjs : register_agent(ag)
    \/ \E name \in Names : unregister_agent(name)
    \/ \E name \in Names : lookup(name)
    \/ \E name \in Names : execute_agent(1, name)
    \/ Start(1, 1)
    \/ Complete(1, 1)

SpecRegistry == InitRegistry /\ [][NextRegistry]_vars

-----------------------------------------------------------------------------
(* Lifecycle: initialize_all, cleanup_all and the async context managers *)

\* The AgentError a concrete agent's initialize raises from its except clause.
InitializeFailedError(ag) ==
    [type |-> "AgentError",
     message |-> [fmt |-> "Failed to initialize {} agent: {}", arg |-> ag, cause |-> "cause"],
     details |-> [keys |-> {"agent", "error"}, agent |-> NameOf(ag), error |-> "cause"]]

\* The AuthenticationError of WatsonXCrafterAgent.initialize.
AuthenticationFailedError(ag) ==
    [type |-> "AuthenticationError",
     message |-> [fmt |-> "Failed to authenticate with WatsonX: {}", arg |-> "unauthorized"],
     details |-> [keys |-> {"agent", "error"}, agent |-> NameOf(ag), error |-> "unauthorized"]]

\* The OrchestrationError initialize_all raises from its except clause.
InitializeAllFailedError(e) ==
    [type |-> "OrchestrationError",
     message |-> [fmt |-> "Failed to initialize agents: {}", cause |-> Str(e)],
     details |-> [keys |-> {"error"}, error |-> Str(e)]]

\* How agent.initialize can end: a MockAgent sets its flag; a concrete agent
\* builds its client, which may fail, and WatsonX tells authentication failures apart.
InitializeOutcomes(ag) ==
    CASE ag = "watsonx" -> {"ok", "agent_error", "auth_error"}
      [] Validates(ag) -> {"ok", "agent_error"}
      [] OTHER -> {"ok"}

\* agent.initialize(): its outcome and the flag _initialized afterwards.
initialize(ag, init, how) ==
    CASE how = "ok" -> [out |-> Return(NoResult), init |-> [init EXCEPT ![ag] = TRUE]]
      [] how = "agent_error" -> [out |-> Raise(InitializeFailedError(ag)), init |-> init]
      [] OTHER -> [out |-> Raise(AuthenticationFailedError(ag)), init |-> init]

\* How agent.cleanup can end: only "await self.client.aclose()" can fail, and it
\* runs when there is a client, which is when the agent is initialized.
CleanupOutcomes(ag, init) == IF HasClient(ag) /\ init[ag] THEN {"ok", "exception"} ELSE {"ok"}

\* A cleanup that calls self.client.aclose() without testing self.client: an
\* AttributeError on None while the agent has no client.
cleanupUnguarded(ag, init, how) ==
    IF HasClient(ag) /\ ~init[ag]
    THEN [out |-> Raise([type |-> "AttributeError", message |-> "aclose", details |-> NoDetails]),
          init |-> init]
    ELSE IF how = "ok"
    THEN [out |-> Return(NoResult), init |-> [init EXCEPT ![ag] = FALSE]]
    ELSE [out |-> Raise(PlainException), init |-> init]

\* agent.cleanup(): the subclass closes its client, then BaseAgent.cleanup resets
\* _initialized; a failure of aclose leaves before that.
cleanup(ag, init, how) ==
    IF how = "ok"
    THEN [out |-> Return(NoResult), init |-> [init EXCEPT ![ag] = FALSE]]
    ELSE [out |-> Raise(PlainException), init |-> init]

\* The coroutine agent.initialize() or agent.cleanup(), not yet run.
NewLifecycleCall(ag) == [NewCall(NameOf(ag), 0) EXCEPT !.agent = ag]

\* [agent.initialize() for agent in self.agents.values()], likewise for cleanup.
LifecycleCalls(reg) == [i \in 1..Len(reg) |-> NewLifecycleCall(reg[i])]

\* The application makes its lifecycle calls one after the other: a call is
\* made when the earlier ones are over and none of their coroutines is left.
Quiescent(op) ==
    /\ op.st \in {"returned", "raised"}
    /\ \A i \in 1..Len(op.calls) : op.calls[i].pc = "done"

MayBegin(o) ==
    /\ ops[o].st = "idle"
    /\ \A p \in OpIds : p < o => Quiescent(ops[p])

\* Are the coroutines of op calls of initialize, or of cleanup ?
InInitialize(op) == op.kind = "init" \/ op.phase \in {"enter", "failed"}

InCleanup(op) == op.kind = "cleanup" \/ op.phase \in {"exit", "left"}

\* await coordinator.initialize_all(): gather creates one task per registered agent.
initialize_all(o) ==
    /\ MayBegin(o)
    /\ ops' = [ops EXCEPT ![o] = [IdleOp EXCEPT !.kind = "init", !.st = "active",
                                     !.calls = LifecycleCalls(agents)]]
    /\ UNCHANGED <<agents, initialized, max_concurrent, semaphore, waiters, last, web, wf>>

\* A cleanup_all that also empties the registry.
cleanupAllClearingRegistry(o) ==
    /\ MayBegin(o)
    /\ ops' = [ops EXCEPT ![o] = [IdleOp EXCEPT !.kind = "cleanup", !.st = "active",
                                     !.calls = LifecycleCalls(agents)]]
    /\ agents' = <<>>
    /\ UNCHANGED <<initialized, max_concurrent, semaphore, waiters, last, web, wf>>

\* await coordinator.cleanup_all()
cleanup_all(o) ==
    /\ MayBegin(o)
    /\ ops' = [ops EXCEPT ![o] = [IdleOp EXCEPT !.kind = "cleanup", !.st = "active",
                                     !.calls = LifecycleCalls(agents)]]
    /\ UNCHANGED <<agents, initialized, max_concurrent, semaphore, waiters, last, web, wf>>

\* "async with coordinator:" reaches AgentCoordinator.__aenter__, which awaits
\* initialize_all.
coordinator_aenter(o) ==
    /\ MayBegin(o)
    /\ ops' = [ops EXCEPT ![o] = [IdleOp EXCEPT !.kind = "scope", !.st = "active",
                                     !.phase = "enter",
                                     !.calls = LifecycleCalls(agents)]]
    /\ UNCHANGED <<agents, initialized, max_concurrent, semaphore, waiters, last, web, wf>>

\* "async with agent:" reaches BaseAgent.__aenter__, which awaits self.initialize().
agent_aenter(o, ag) ==
    /\ MayBegin(o)
    /\ ops' = [ops EXCEPT ![o] = [IdleOp EXCEPT !.kind = "agent", !.st = "active",
                                     !.phase = "enter",
                                     !.calls = <<NewLifecycleCall(ag)>>]]
    /\ UNCHANGED <<agents, initialized, max_concurrent, semaphore, waiters, last, web, wf>>

\* BaseAgent.__aenter__ after its await of initialize: the block is entered, or
\* the exception of initialize leaves the with statement.
AgentEntered(op, c) ==
    IF c.out.kind = "return"
    THEN [op EXCEPT !.phase = "body"]
    ELSE [op EXCEPT !.phase = "failed", !.st = "raised", !.err = c.out.err]

\* The with statement of an agent after BaseAgent.__aexit__: an exception of
\* cleanup leaves it; otherwise the exception of the body does, if there is one.
AgentLeft(op, c) ==
    CASE c.out.kind = "raise" -> [op EXCEPT !.phase = "left", !.st = "raised", !.err = c.out.err]
      [] op.body.kind = "raise" -> [op EXCEPT !.phase = "left", !.st = "raised", !.err = op.body.err]
      [] OTHER -> [op EXCEPT !.phase = "left", !.st = "returned"]

\* The caller of a lifecycle coroutine after its child i ended as c: gather
\* notes the first exception; an agent's own with statement goes on at once.
LifecycleFinish(op, i, c) ==
    LET op1 == [op EXCEPT !.calls[i] = c, !.order = Append(@, i)] IN
    CASE op.kind = "agent" /\ op.phase = "enter" -> AgentEntered(op1, c)
      [] op.kind = "agent" /\ op.phase = "exit" -> AgentLeft(op1, c)
      [] OTHER -> IF c.out.kind = "raise" /\ op.first = 0
                  THEN [op1 EXCEPT !.first = i]
                  ELSE op1

\* One agent.initialize() coroutine runs.
Initialize(o, i) ==
    /\ i \in 1..Len(ops[o].calls)
    /\ InInitialize(ops[o])
    /\ ops[o].calls[i].pc = "start"
    /\ \E how \in InitializeOutcomes(ops[o].calls[i].agent) :
         LET c == ops[o].calls[i]
             r == initialize(c.agent, initialized, how)
             c2 == [c EXCEPT !.pc = "done", !.initAtCall = initialized[c.agent],
                             !.down = how, !.out = r.out]
         IN /\ initialized' = r.init
            /\ ops' = [ops EXCEPT ![o] = LifecycleFinish(@, i, c2)]
    /\ UNCHANGED <<agents, max_concurrent, semaphore, waiters, last, web, wf>>

\* A cleanup coroutine that queues for a permit of the coordinator's semaphore
\* before it runs.
CleanupQueuedForPermit(o, i) ==
    /\ i \in 1..Len(ops[o].calls)
    /\ InCleanup(ops[o])
    /\ ops[o].calls[i].pc = "start"
    /\ IF locked(semaphore, waiters)
       THEN /\ ops' = [ops EXCEPT ![o].calls[i].pc = "waiting"]
            /\ waiters' = Append(waiters, <<o, i>>)
            /\ UNCHANGED initialized
       ELSE /\ \E how \in CleanupOutcomes(ops[o].calls[i].agent, initialized) :
                 LET c == ops[o].calls[i]
                     r == cleanup(c.agent, initialized, how)
                     c2 == [c EXCEPT !.pc = "done", !.initAtCall = initialized[c.agent],
                                     !.down = how, !.out = r.out]
                 IN /\ initialized' = r.init
                    /\ ops' = [ops EXCEPT ![o] = LifecycleFinish(@, i, c2)]
            /\ UNCHANGED waiters
    /\ UNCHANGED <<agents, max_concurrent, semaphore, last, web, wf>>

\* One agent.cleanup() coroutine runs.
Cleanup(o, i) ==
    /\ i \in 1..Len(ops[o].calls)
    /\ InCleanup(ops[o])
    /\ ops[o].calls[i].pc = "start"
    /\ \E how \in CleanupOutcomes(ops[o].calls[i].agent, initialized) :
         LET c == ops[o].calls[i]
             r == cleanup(c.agent, initialized, how)
             c2 == [c EXCEPT !.pc = "done", !.initAtCall = initialized[c.agent],
                             !.down = how, !.out = r.out]
         IN /\ initialized' = r.init
            /\ ops' = [ops EXCEPT ![o] = LifecycleFinish(@, i, c2)]
    /\ UNCHANGED <<agents, max_concurrent, semaphore, waiters, last, web, wf>>

\* A wait that ends with the first child that ends (asyncio.wait with
\* FIRST_COMPLETED) instead of with all of them.
FirstInitializeReturned(op) ==
    \E i \in 1..Len(op.calls) : op.calls[i].out.kind = "return"

\* gather returns its list when every child has returned.
AllInitializeReturned(op) ==
    \A i \in 1..Len(op.calls) : op.calls[i].out.kind = "return"

\* A gather that cancels the initializations still pending when one raises.
InitializeAllRaisedCancelling(op) ==
    [op EXCEPT !.st = "raised",
               !.ended = Len(op.order),
               !.err = InitializeAllFailedError(op.calls[op.first].out.err),
               !.phase = IF op.kind = "scope" THEN "failed" ELSE @,
               !.calls = [i \in 1..Len(op.calls) |->
                            IF op.calls[i].pc = "done" THEN op.calls[i]
                            ELSE [op.calls[i] EXCEPT !.pc = "cancelled"]]]

\* initialize_all when gather raises the first exception of a child: the except
\* clause wraps it.  Under "async with" the exception leaves __aenter__, so the
\* block is not entered and __aexit__ is not called.
InitializeAllRaised(op) ==
    [op EXCEPT !.st = "raised",
               !.ended = Len(op.order),
               !.err = InitializeAllFailedError(op.calls[op.first].out.err),
               !.phase = IF op.kind = "scope" THEN "failed" ELSE @]

\* initialize_all returns; under "async with" the block is entered.
InitializeAllReturned(op) ==
    IF op.kind = "scope"
    THEN [op EXCEPT !.ended = Len(op.order), !.phase = "body"]
    ELSE [op EXCEPT !.ended = Len(op.order), !.st = "returned"]

\* An __aenter__ that runs cleanup_all when initialize_all fails.
InitializeAllResumeCleaningUp(o) ==
    /\ ops[o].kind \in {"init", "scope"}
    /\ ops[o].st = "active"
    /\ InInitialize(ops[o])
    /\ LET op == ops[o] IN
       IF op.first # 0
       THEN ops' = [ops EXCEPT ![o] =
                      IF op.kind = "scope"
                      THEN [op EXCEPT !.phase = "exit", !.order = <<>>, !.first = 0,
                                      !.body = Raise(InitializeAllFailedError(
                                                         op.calls[op.first].out.err)),
                                      !.calls = LifecycleCalls(agents)]
                      ELSE InitializeAllRaised(op)]
       ELSE /\ AllInitializeReturned(op)
            /\ ops' = [ops EXCEPT ![o] = InitializeAllReturned(op)]
    /\ UNCHANGED <<agents, initialized, max_concurrent, semaphore, waiters, last, web, wf>>

\* initialize_all resumes from its await of gather.
InitializeAllResume(o) ==
    /\ ops[o].kind \in {"init", "scope"}
    /\ ops[o].st = "active"
    /\ InInitialize(ops[o])
    /\ LET op == ops[o] IN
       IF op.first # 0
       THEN ops' = [ops EXCEPT ![o] = InitializeAllRaised(op)]
       ELSE /\ AllInitializeReturned(op)
            /\ ops' = [ops EXCEPT ![o] = InitializeAllReturned(op)]
    /\ UNCHANGED <<agents, initialized, max_concurrent, semaphore, waiters, last, web, wf>>

\* How the block of a with statement can end: it returns, or raises.
BodyOutcomes == {Return(NoResult), Raise(PlainException)}

\* The block of the with statement ends and __aexit__ is called: cleanup_all
\* creates one task per registered agent; an agent awaits its own cleanup.
BodyEnds(o, outcome) ==
    /\ ops[o].kind \in {"scope", "agent"}
    /\ ops[o].phase = "body"
    /\ ops' = [ops EXCEPT ![o].body = outcome,
                          ![o].phase = "exit",
                          ![o].order = <<>>,
                          ![o].first = 0,
                          ![o].calls = IF ops[o].kind = "scope"
                                       THEN LifecycleCalls(agents)
                                       ELSE <<NewLifecycleCall(ops[o].calls[1].agent)>>]
    /\ UNCHANGED <<agents, initialized, max_concurrent, semaphore, waiters, last, web, wf>>

\* A cleanup_all whose gather passes on the first exception of a child.
CleanupAllFailFast(op) ==
    CASE op.first # 0 ->
           [op EXCEPT !.ended = Len(op.order), !.st = "raised",
                      !.err = op.calls[op.first].out.err,
                      !.phase = IF op.kind = "scope" THEN "left" ELSE @]
      [] op.kind = "cleanup" -> [op EXCEPT !.ended = Len(op.order), !.st = "returned"]
      [] op.body.kind = "raise" ->
           [op EXCEPT !.ended = Len(op.order), !.phase = "left",
                      !.st = "raised", !.err = op.body.err]
      [] OTHER -> [op EXCEPT !.ended = Len(op.order), !.phase = "left", !.st = "returned"]

\* cleanup_all returns, the exceptions of the children being entries of a list
\* nobody reads.  Under "async with", __aexit__ returns None and the exception
\* of the block, if any, goes on to the caller.
CleanupAllReturned(op) ==
    CASE op.kind = "cleanup" -> [op EXCEPT !.ended = Len(op.order), !.st = "returned"]
      [] op.body.kind = "raise" ->
           [op EXCEPT !.ended = Len(op.order), !.phase = "left",
                      !.st = "raised", !.err = op.body.err]
      [] OTHER -> [op EXCEPT !.ended = Len(op.order), !.phase = "left", !.st = "returned"]

\* cleanup_all resumes from its await of gather(..., return_exceptions=True),
\* which ends when every child has ended.
CleanupAllResume(o) ==
    /\ ops[o].kind \in {"cleanup", "scope"}
    /\ ops[o].st = "active"
    /\ InCleanup(ops[o])
    /\ \A i \in 1..Len(ops[o].calls) : ops[o].calls[i].pc = "done"
    /\ ops' = [ops EXCEPT ![o] = CleanupAllReturned(@)]
    /\ UNCHANGED <<agents, initialized, max_concurrent, semaphore, waiters, last, web, wf>>

\* Every agent object of the model.
AllAgentObjs == AgentObjs \cup {PipelineAgents[i] : i \in 1..Len(PipelineAgents)}

\* Agents a caller uses on their own in a with statement.
ScopedAgents == {"wiki", "mock1"}

\* The application's coordinator with its three agents registered, before any
\* agent is initialized or after all of them have been.
InitLifecycle ==
    /\ agents = PipelineAgents
    /\ initialized \in {[ag \in AllAgentObjs |-> FALSE], [ag \in AllAgentObjs |-> TRUE]}
    /\ max_concurrent = MaxConcurrent
    /\ semaphore = max_concurrent
    /\ waiters = <<>>
    /\ ops = [o \in OpIds |-> IdleOp]
    /\ last = NoCall
    /\ web = NoWeb
    /\ wf = NoWorkflow

\* One lifecycle call of the application, from either state.
NextLifecycle ==
    \/ initialize_all(1)
    \/ cleanup_all(1)
    \/ coordinator_aenter(1)
    \/ \E ag \in ScopedAgents : agent_aenter(1, ag)
    \/ \E i \in 1..Len(PipelineAgents) : Initialize(1, i)
    \/ \E i \in 1..Len(PipelineAgents) : Cleanup(1, i)
    \/ InitializeAllResume(1)
    \/ \E outcome \in BodyOutcomes : BodyEnds(1, outcome)
    \/ CleanupAllResume(1)

SpecLifecycle == InitLifecycle /\ [][NextLifecycle]_vars

-----------------------------------------------------------------------------
(* The dicts the agents return, as far as the workflow engine reads them *)

MaxItems == 3    \* the search service returns 0..MaxItems items
MaxTokens == 2   \* the model reports 0..MaxTokens generated tokens

\* report_max_tokens, taken at its default.
ReportMaxTokens == 1500

\* GoogleSearchAgent.execute: one entry of "results" per item of the response.
SearchContent(n) ==
    [keys |-> {"query", "results", "total_results", "search_time"},
     results |-> [i \in 1..n |-> [title |-> Text("item title", i),
                                  link |-> Text("item link", i),
                                  snippet |-> Text("item snippet", i)]]]

\* WikipediaAgent.execute: the article with its extract, an article whose
\* extract is empty, or the dict of None values when the search finds nothing.
WikiContent(article) ==
    CASE article = "found" ->
           [keys |-> {"query", "title", "extract", "url", "page_id"},
            title |-> Text("page title", 0), extract |-> Text("page extract", 0),
            url |-> Text("page url", 0)]
      [] article = "empty" ->
           [keys |-> {"query", "title", "extract", "url", "page_id"},
            title |-> Text("page title", 0), extract |-> EmptyString,
            url |-> Text("page url", 0)]
      [] OTHER ->
           [keys |-> {"query", "title", "extract", "url", "page_id", "error"},
            title |-> None, extract |-> None, url |-> None]

\* WatsonXCrafterAgent.execute: the text and the token counts of the response.
GeneratedContent(tokens) ==
    [keys |-> {"task", "generated_text", "model_id", "input_tokens", "generated_tokens"},
     generated_text |-> Text("report", 0),
     input_tokens |-> tokens + 1,
     generated_tokens |-> tokens]

\* A stand-in for the synthesis agent that reports the number of sources it was
\* given as its generated tokens.
EchoContent(context) ==
    [keys |-> {"generated_text", "generated_tokens"},
     generated_text |-> Text("report", 0),
     input_tokens |-> 0,
     generated_tokens |-> Len(context.source_data)]

\* The dict behind a result of agent.execute, given the context of the call.
Content(r, context) ==
    CASE r.by = "google" -> SearchContent(web.items)
      [] r.by = "wiki" -> WikiContent(web.article)
      [] r.by = "watsonx" -> GeneratedContent(web.tokens)
      [] r.by = "echo" -> EchoContent(context)
      [] OTHER -> [keys |-> {"result", "task"}]

-----------------------------------------------------------------------------
(* WorkflowEngine.execute_research_workflow *)

\* The query, and the synthesis task built from it.
Query == 1

SynthesisTask == Query + 1

\* A Wikipedia source added whatever the extract is.
prepareSourceDataUnconditional(search_results, wiki_data) ==
    <<[type |-> "Wikipedia", title |-> wiki_data.title, url |-> wiki_data.url,
       content |-> wiki_data.extract]>>
    \o [i \in 1..Len(search_results.results) |->
          [type |-> "Web Search", title |-> search_results.results[i].title,
           url |-> search_results.results[i].link,
           content |-> search_results.results[i].snippet]]

\* WorkflowEngine._prepare_source_data
prepare_source_data(search_results, wiki_data) ==
    (IF Truthy(wiki_data.extract)
     THEN <<[type |-> "Wikipedia", title |-> wiki_data.title, url |-> wiki_data.url,
             content |-> wiki_data.extract]>>
     ELSE <<>>)
    \o [i \in 1..Len(search_results.results) |->
          [type |-> "Web Search", title |-> search_results.results[i].title,
           url |-> search_results.results[i].link,
           content |-> search_results.results[i].snippet]]

\* A synthesis context that leaves the sources out.
SynthesisContextWithoutSources(source_data, max_tokens) ==
    [NoContext EXCEPT !.keys = {"max_tokens", "temperature"},
                      !.max_tokens = max_tokens]

\* synthesis_context
SynthesisContext(source_data, max_tokens) ==
    [NoContext EXCEPT !.keys = {"source_data", "max_tokens", "temperature"},
                      !.source_data = source_data,
                      !.max_tokens = max_tokens]

\* The title as the CLI prints it: metadata.get("wikipedia_title") or "N/A".
WikipediaTitleOrMarker(wiki_data) ==
    IF Truthy(wiki_data.title) THEN wiki_data.title ELSE Text("N/A", 0)

\* wiki_data.get("title")
WikipediaTitle(wiki_data) == wiki_data.title

\* Metadata that counts the sources handed to the synthesis instead of the
\* search results.
MetadataCountingSources(search_results, wiki_data, watsonx_result) ==
    [num_search_results |-> Len(prepare_source_data(search_results, wiki_data)),
     wikipedia_title |-> WikipediaTitle(wiki_data),
     report_tokens |-> watsonx_result.generated_tokens,
     total_input_tokens |-> watsonx_result.input_tokens]

\* The "metadata" entry of the dict execute_research_workflow returns.
Metadata(search_results, wiki_data, watsonx_result) ==
    [num_search_results |-> Len(search_results.results),
     wikipedia_title |-> WikipediaTitle(wiki_data),
     report_tokens |-> watsonx_result.generated_tokens,
     total_input_tokens |-> watsonx_result.input_tokens]

\* The dict execute_research_workflow returns.
ResearchResult(search_results, wiki_data, watsonx_result) ==
    [keys |-> {"query", "search_results", "wikipedia_data", "final_report", "metadata"},
     query |-> Query,
     search_results |-> search_results,
     wikipedia_data |-> wiki_data,
     final_report |-> watsonx_result.generated_text,
     metadata |-> Metadata(search_results, wiki_data, watsonx_result)]

\* await engine.execute_research_workflow(query): up to its await of
\* execute_parallel, whose gather creates the two calls.
execute_research_workflow ==
    /\ wf.kind = "none"
    /\ ops[1].st = "idle"
    /\ ops' = [ops EXCEPT ![1] =
                 [IdleOp EXCEPT !.kind = "par", !.st = "active",
                     !.tasks = <<<<"google-search-agent", Query>>, <<"wikipedia-agent", Query>>>>,
                     !.calls = <<[NewCall("google-search-agent", Query) EXCEPT
                                    !.context = [NoContext EXCEPT !.keys = {"num_results"}]],
                                 [NewCall("wikipedia-agent", Query) EXCEPT
                                    !.context = [NoContext EXCEPT !.keys = {"sentences"}]]>>]]
    /\ wf' = [NoWorkflow EXCEPT !.kind = "research", !.pc = "gathering"]
    /\ UNCHANGED <<agents, initialized, max_concurrent, semaphore, waiters, last, web>>

\* A workflow that catches the failure of the fan-out and goes on to the
\* synthesis without sources.
ResearchGatheredIgnoringFailure ==
    /\ wf.kind = "research"
    /\ wf.pc = "gathering"
    /\ ops[1].st \in {"returned", "raised"}
    /\ LET search_results == IF ops[1].st = "raised" THEN NoDict
                             ELSE Content(ops[1].value[1], ops[1].calls[1].context)
           wiki_data == IF ops[1].st = "raised" THEN NoDict
                        ELSE Content(ops[1].value[2], ops[1].calls[2].context)
           source_data == IF ops[1].st = "raised" THEN <<>>
                          ELSE prepare_source_data(search_results, wiki_data)
       IN /\ wf' = [wf EXCEPT !.pc = "synthesizing",
                              !.search_results = search_results,
                              !.wiki_data = wiki_data,
                              !.source_data = source_data]
          /\ ops' = [ops EXCEPT ![2] =
                       [IdleOp EXCEPT !.kind = "one", !.st = "active",
                           !.tasks = <<<<"watsonx-crafter-agent", SynthesisTask>>>>,
                           !.calls = <<[NewCall("watsonx-crafter-agent", SynthesisTask)
                                          EXCEPT !.context =
                                            SynthesisContext(source_data,
                                                             ReportMaxTokens)]>>]]
    /\ UNCHANGED <<agents, initialized, max_concurrent, semaphore, waiters, last, web>>

\* execute_parallel has ended: its exception leaves the workflow, or the
\* workflow takes the two results, prepares the sources and awaits
\* execute_agent for the synthesis.
ResearchGathered ==
    /\ wf.kind = "research"
    /\ wf.pc = "gathering"
    /\ ops[1].st \in {"returned", "raised"}
    /\ IF ops[1].st = "raised"
       THEN /\ wf' = [wf EXCEPT !.pc = "raised", !.err = ops[1].err]
            /\ UNCHANGED ops
       ELSE LET search_results == Content(ops[1].value[1], ops[1].calls[1].context)
                wiki_data == Content(ops[1].value[2], ops[1].calls[2].context)
                source_data == prepare_source_data(search_results, wiki_data)
            IN /\ wf' = [wf EXCEPT !.pc = "synthesizing",
                                   !.search_results = search_results,
                                   !.wiki_data = wiki_data,
                                   !.source_data = source_data]
               /\ ops' = [ops EXCEPT ![2] =
                            [IdleOp EXCEPT !.kind = "one", !.st = "active",
                                !.tasks = <<<<"watsonx-crafter-agent", SynthesisTask>>>>,
                                !.calls = <<[NewCall("watsonx-crafter-agent", SynthesisTask)
                                               EXCEPT !.context =
                                                 SynthesisContext(source_data,
                                                                  ReportMaxTokens)]>>]]
    /\ UNCHANGED <<agents, initialized, max_concurrent, semaphore, waiters, last, web>>

\* A workflow that takes the synthesis agent out of the registry when it is done
\* with it.
ResearchSynthesizedDroppingAgent ==
    /\ wf.kind = "research"
    /\ wf.pc = "synthesizing"
    /\ ops[2].st \in {"returned", "raised"}
    /\ wf' = IF ops[2].st = "raised"
             THEN [wf EXCEPT !.pc = "raised", !.err = ops[2].err]
             ELSE [wf EXCEPT !.pc = "returned",
                             !.result = ResearchResult(wf.search_results, wf.wiki_data,
                                           Content(ops[2].value[1], ops[2].calls[1].context))]
    /\ agents' = unregister(agents, "watsonx-crafter-agent").agents
    /\ UNCHANGED <<initialized, max_concurrent, semaphore, waiters, ops, last, web>>

\* execute_agent has ended: its exception leaves the workflow, or the workflow
\* returns its dict.
ResearchSynthesized ==
    /\ wf.kind = "research"
    /\ wf.pc = "synthesizing"
    /\ ops[2].st \in {"returned", "raised"}
    /\ wf' = IF ops[2].st = "raised"
             THEN [wf EXCEPT !.pc = "raised", !.err = ops[2].err]
             ELSE [wf EXCEPT !.pc = "returned",
                             !.result = ResearchResult(wf.search_results, wf.wiki_data,
                                           Content(ops[2].value[1], ops[2].calls[1].context))]
    /\ UNCHANGED <<agents, initialized, max_concurrent, semaphore, waiters, ops, last, web>>

\* Coordinators of the application with the three agents of the workflow, the
\* synthesis agent being the WatsonX one or the stand-in.
ResearchRegistries == {PipelineAgents, <<"google", "wiki", "echo">>, <<"wiki", "watsonx">>}

\* What the services can answer to the query.
Webs == [items : 0..MaxItems, article : {"found", "empty", "not_found"}, tokens : 0..MaxTokens]

\* The application after initialize_all, or having skipped it, calls the workflow.
InitResearch ==
    /\ agents \in ResearchRegistries
    /\ initialized \in {[ag \in AllAgentObjs \cup {"echo"} |-> TRUE],
                        [ag \in AllAgentObjs \cup {"echo"} |-> FALSE]}
    /\ max_concurrent \in 1..MaxConcurrent
    /\ semaphore = max_concurrent
    /\ waiters = <<>>
    /\ ops = [o \in OpIds |-> IdleOp]
    /\ last = NoCall
    /\ web \in Webs
    /\ wf = NoWorkflow

NextResearch ==
    \/ execute_research_workflow
    \/ \E o \in OpIds, i \in 1..MaxCalls : Start(o, i)
    \/ \E o \in OpIds, i \in 1..MaxCalls : Resume(o, i)
    \/ \E o \in OpIds, i \in 1..MaxCalls : Complete(o, i)
    \/ \E o \in OpIds : GatherResume(o)
    \/ ResearchGathered
    \/ ResearchSynthesized

SpecResearch == InitResearch /\ [][NextResearch]_vars

-----------------------------------------------------------------------------
(* WorkflowEngine.execute_custom_workflow *)

\* The depends_on lists of a step: none, the first step (once, twice), the second
\* step, the last result counted from the end.
DependsOn == {<<>>, <<0>>, <<0, 0>>, <<1>>, <<-1>>}

\* Step definitions: the agent, the parallel flag, and depends_on.
StepDefs == [agent : Names, parallel : BOOLEAN, depends_on : DependsOn]

StepTasks(steps) ==
    [i \in 1..Len(steps) |->
       <<steps[i].agent, TaskText(i), steps[i].parallel, steps[i].depends_on,
         IF "context" \in DOMAIN steps[i] THEN steps[i].context ELSE NoStepContext>>]

\* The result_aggregator argument: none, or the caller's function.
Aggregators == {"None", "Aggregated"}

\* await engine.execute_custom_workflow(steps, aggregator): up to its first
\* await, or to its return when there is no step.
execute_custom_workflow(o, steps, aggregator) ==
    /\ MaySubmit(o, Len(steps))
    /\ ops' = [ops EXCEPT ![o] =
                 IF steps = <<>>
                 THEN [IdleOp EXCEPT !.kind = "custom", !.st = "returned",
                                     !.aggregator = aggregator,
                                     !.value = CustomReturnValue(aggregator, <<>>, 0)]
                 ELSE CustomIteration([IdleOp EXCEPT !.kind = "custom", !.st = "active",
                                                     !.aggregator = aggregator,
                                                     !.tasks = StepTasks(steps)], 1)]
    /\ UNCHANGED <<agents, initialized, max_concurrent, semaphore, waiters, last, web, wf>>

\* A custom workflow runs on the coordinator of the tests while another caller
\* may use execute_agent.
NextCustom ==
    \/ \E o \in OpIds, n \in 0..MaxCalls :
          /\ MaySubmit(o, n)
          /\ \A p \in OpIds : ops[p].kind # "custom"
          /\ \E steps \in [1..n -> StepDefs], aggregator \in Aggregators :
                 execute_custom_workflow(o, steps, aggregator)
    \/ \E o \in OpIds, name \in Names : execute_agent(o, name)
    \/ \E o \in OpIds, i \in 1..MaxCalls : Start(o, i)
    \/ \E o \in OpIds, i \in 1..MaxCalls : Resume(o, i)
    \/ \E o \in OpIds, i \in 1..MaxCalls : Complete(o, i)

SpecCustom == Init /\ [][NextCustom]_vars

-----------------------------------------------------------------------------
(* Properties *)

CallIds == {oi \in OpIds \X (1..MaxCalls) : oi[2] <= Len(ops[oi[1]].calls)}

CallAt(oi) == ops[oi[1]].calls[oi[2]]

\* agent.execute has been invoked by this execute_agent call.
Invoked(c) == c.agent # NoAgent /\ c.pc \in {"running", "done"}

AllCallsEnded == \A oi \in CallIds : CallAt(oi).pc = "done"

\* C1: the number of agent execute calls in progress under one coordinator never
\* exceeds its bound max_concurrent, whichever entry points submitted them.
BoundedConcurrency == Cardinality(Running) <= max_concurrent

\* N calls are in progress and a further submission is queued for a permit.
SaturationReached ==
    /\ Cardinality(Running) = max_concurrent
    /\ waiters # <<>>

\* C2: available permits plus agent calls in progress always equal max_concurrent,
\* and once every submitted call has ended, by success or by failure, all
\* max_concurrent permits are available again.
PermitConservation ==
    /\ semaphore + Cardinality(Running) = max_concurrent
    /\ AllCallsEnded => semaphore = max_concurrent

\* Every call has ended, one of them by a failure of the agent's request after it
\* had held a permit, and the permits are all back.
PermitsBackAfterFailure ==
    /\ AllCallsEnded
    /\ \E oi \in CallIds : CallAt(oi).down \in {"agent_error", "exception"}
    /\ \E oi \in CallIds : CallAt(oi).down = "ok"
    /\ semaphore = max_concurrent


\* The result the agent registered under the name of entry i returns for that entry.
ExpectedResult(op, i) == Result(get_agent(agents, op.tasks[i][1]), op.tasks[i][2])

\* C3: when execute_parallel returns, its list is as long as the input and the
\* result at index i is that of the agent and task of input entry i, in whatever
\* order the calls ended.
ParallelResultsInInputOrder ==
    \A o \in OpIds :
        ops[o].kind = "par" /\ ops[o].st = "returned" =>
            /\ Len(ops[o].value) = Len(ops[o].tasks)
            /\ \A i \in 1..Len(ops[o].tasks) : ops[o].value[i] = ExpectedResult(ops[o], i)

\* A batch of two different agents has returned, the second entry having ended first.
ParallelReturnedOutOfOrder ==
    \E o \in OpIds :
        /\ ops[o].kind = "par" /\ ops[o].st = "returned"
        /\ ops[o].order = <<2, 1>>
        /\ ops[o].tasks[1][1] # ops[o].tasks[2][1]

\* C4: execute_sequential creates the call of an entry only when every earlier
\* entry has ended successfully, so a failure at position k leaves exactly the k
\* earlier entries invoked, each successfully, and nothing after k; the call then
\* raises; and when it returns, its list holds one result per entry in input order.
SequentialInOrderAndAborts ==
    \A o \in OpIds :
        ops[o].kind = "seq" =>
            /\ \A i \in 1..Len(ops[o].calls) :
                   i < Len(ops[o].calls) =>
                       /\ ops[o].calls[i].pc = "done"
                       /\ ops[o].calls[i].out.kind = "return"
                       /\ Invoked(ops[o].calls[i])
            /\ (\E i \in 1..Len(ops[o].calls) : ops[o].calls[i].out.kind = "raise")
                   => ops[o].st = "raised"
            /\ ops[o].st = "raised" =>
                   ops[o].calls[Len(ops[o].calls)].out.kind = "raise"
            /\ ops[o].st = "returned" =>
                   /\ Len(ops[o].value) = Len(ops[o].tasks)
                   /\ Len(ops[o].calls) = Len(ops[o].tasks)
                   /\ \A i \in 1..Len(ops[o].tasks) :
                          ops[o].value[i] = ExpectedResult(ops[o], i)

\* A sequence of two entries has failed at its first entry; the second entry has
\* no call.
SequentialAbortedBeforeLastEntry ==
    \E o \in OpIds :
        /\ ops[o].kind = "seq" /\ ops[o].st = "raised"
        /\ Len(ops[o].tasks) = 2
        /\ Len(ops[o].calls) = 1

\* C5 as stated: when execute_sequential fails at position k, the k results
\* completed before the failure reach the caller together with the failure.
SequentialFailureKeepsResults ==
    \A o \in OpIds :
        ops[o].kind = "seq" /\ ops[o].st = "raised" =>
            Len(ops[o].value) = Len(ops[o].calls) - 1

\* C5 amended: when execute_sequential fails at position k, the caller receives
\* the failure of entry k alone: no result list is returned and the exception
\* carries the agent, the task and the error of entry k, not the k results.
SequentialFailureDropsResults ==
    \A o \in OpIds :
        ops[o].kind = "seq" /\ ops[o].st = "raised" =>
            /\ ops[o].value = <<>>
            /\ ops[o].err = ops[o].calls[Len(ops[o].calls)].out.err
            /\ ops[o].err.details.keys \subseteq {"agent", "task", "error", "registered_agents"}

\* A sequence has failed at its second entry, after one entry had returned a result.
SequentialFailedAfterOneResult ==
    \E o \in OpIds :
        /\ ops[o].kind = "seq" /\ ops[o].st = "raised"
        /\ Len(ops[o].calls) = 2
        /\ ops[o].calls[1].out.kind = "return"


\* C6 as stated: execute_agent on a registered agent that is not initialized
\* fails, never returning a result; the agent's execute does its work through
\* the coordinator only while the agent is initialized.
ExecuteOneRequiresInitialized ==
    \A oi \in CallIds :
        Invoked(CallAt(oi)) /\ ~CallAt(oi).initAtCall =>
            /\ CallAt(oi).pc = "done"
            /\ CallAt(oi).out.kind = "raise"

\* C7 as stated: for every agent, execute called before a successful initialize
\* fails with the AgentError "not initialized", and execute called after
\* initialize returns a result when its downstream request succeeds.
ExecuteBeforeInitializeFails ==
    \A oi \in CallIds :
        Invoked(CallAt(oi)) /\ CallAt(oi).pc = "done" =>
            /\ ~CallAt(oi).initAtCall =>
                   CallAt(oi).inner = Raise(NotInitializedError(CallAt(oi).agent))
            /\ CallAt(oi).initAtCall /\ CallAt(oi).down = "ok" =>
                   CallAt(oi).inner.kind = "return"

\* C8: register_agent of an agent whose name is already a key raises the
\* OrchestrationError "already registered" and leaves the registry as it was:
\* the name still maps to the agent registered first.
DuplicateRegisterLeavesRegistry ==
    [][\A ag \in AgentObjs :
          register_agent(ag) /\ NameOf(ag) \in KeySet(agents) =>
              /\ agents' = agents
              /\ get_agent(agents', NameOf(ag)) = get_agent(agents, NameOf(ag))
              /\ last'.err.type = "OrchestrationError"
              /\ last'.err.message.fmt = "Agent with name '{}' is already registered"
              /\ last'.err.details.agent = NameOf(ag)]_vars

\* A second agent object with a registered name was refused; the first is still there.
DuplicateRefused ==
    /\ last.op = "register" /\ last.arg = "mock2"
    /\ last.err.type = "OrchestrationError"
    /\ get_agent(agents, "test-agent") = "mock1"

\* C9: execute_agent with a name that is no key raises the OrchestrationError
\* "not found" whose details hold the requested name and exactly the names
\* registered at the time of the lookup, whatever the registry holds.
NotFoundListsRegisteredNames ==
    [][Start(1, 1) /\ ops[1].calls[1].name \notin KeySet(agents) =>
          /\ ops'[1].st = "raised"
          /\ ops'[1].err.type = "OrchestrationError"
          /\ ops'[1].err.message.fmt = "Agent '{}' not found"
          /\ ops'[1].err.details.keys = {"agent", "registered_agents"}
          /\ ops'[1].err.details.agent = ops[1].calls[1].name
          /\ Len(ops'[1].err.details.registered_agents) = Cardinality(KeySet(agents))
          /\ {ops'[1].err.details.registered_agents[k] :
                 k \in 1..Len(ops'[1].err.details.registered_agents)} = KeySet(agents)]_vars

\* A lookup failed while two agents were registered, and lists both.
NotFoundWithTwoRegistered ==
    /\ ops[1].st = "raised"
    /\ ops[1].err.message.fmt = "Agent '{}' not found"
    /\ Len(ops[1].err.details.registered_agents) = 2

\* C10: whenever agent.execute raises inside execute_agent, whatever it raises,
\* execute_agent raises an OrchestrationError whose details hold the agent name,
\* the task and the text of the original failure, which begins with its message;
\* the caller of execute_agent receives that error and no result.
AgentFailureSurfacesWrapped ==
    \A oi \in CallIds :
        CallAt(oi).inner.kind = "raise" =>
            /\ CallAt(oi).out.kind = "raise"
            /\ CallAt(oi).out.err.type = "OrchestrationError"
            /\ CallAt(oi).out.err.details.keys = {"agent", "task", "error"}
            /\ CallAt(oi).out.err.details.agent = CallAt(oi).name
            /\ CallAt(oi).out.err.details.task = CallAt(oi).task
            /\ CallAt(oi).out.err.details.error.message = CallAt(oi).inner.err.message
            /\ ops[oi[1]].kind = "one" =>
                   /\ ops[oi[1]].st = "raised"
                   /\ ops[oi[1]].err = CallAt(oi).out.err
                   /\ ops[oi[1]].value = <<>>

\* An exception that is no AgentError was raised by the agent's execute and
\* reached the caller of execute_agent.
PlainExceptionSurfaced ==
    \E o \in OpIds :
        /\ ops[o].kind = "one" /\ ops[o].st = "raised"
        /\ ops[o].calls[1].down = "exception"

\* The entry of a batch whose call raised first.
FirstFailed(op) ==
    op.order[CHOOSE k \in 1..Len(op.order) :
                /\ op.calls[op.order[k]].out.kind = "raise"
                /\ \A j \in 1..(k - 1) : op.calls[op.order[j]].out.kind = "return"]

\* C11: when an entry of an execute_parallel batch fails, the batch raises the
\* failure of the entry that failed first, wrapped, and returns no result; its
\* other calls are not cancelled: each is where it was, able to take its next
\* step (start, wait for a permit, end), and holds a permit only while running.
ParallelFailFastKeepsSiblings ==
    \A o \in OpIds :
        ops[o].kind = "par" /\ ops[o].st = "raised" =>
            /\ ops[o].err = ParallelFailedError(Len(ops[o].tasks),
                                                ops[o].calls[FirstFailed(ops[o])].out.err)
            /\ ops[o].value = <<>>
            /\ \A i \in 1..Len(ops[o].calls) :
                   /\ ops[o].calls[i].pc \in {"start", "waiting", "running", "done"}
                   /\ ops[o].calls[i].pc = "start" => ENABLED Start(o, i)
                   /\ ops[o].calls[i].pc = "running" => ENABLED Complete(o, i)
                   /\ ops[o].calls[i].pc = "waiting" =>
                          \E k \in 1..Len(waiters) : waiters[k] = <<o, i>>

\* A batch of two raised when its first call had ended; the other call, queued
\* for the only permit at that time, then ran and returned, its result in no
\* list, and all permits are free again.
SiblingCompletedAfterBatchFailed ==
    \E o \in OpIds :
        /\ ops[o].kind = "par" /\ ops[o].st = "raised"
        /\ ops[o].ended = 1 /\ Len(ops[o].order) = 2
        /\ ops[o].calls[ops[o].order[2]].out.kind = "return"
        /\ ops[o].value = <<>>
        /\ semaphore = max_concurrent

\* The agents a lifecycle call or with statement works on.
AgentsOf(op) == {op.calls[i].agent : i \in 1..Len(op.calls)}

\* C12: when initialize_all returns, which it does when the initialize of every
\* registered agent has succeeded, every registered agent is initialized.
InitializeAllInitializesEveryAgent ==
    \A o \in OpIds :
        \/ ops[o].kind = "init" /\ ops[o].st = "returned"
        \/ ops[o].kind = "scope" /\ ops[o].phase = "body"
        => /\ AgentsOf(ops[o]) = {agents[i] : i \in 1..Len(agents)}
           /\ \A i \in 1..Len(ops[o].calls) : ops[o].calls[i].out.kind = "return"
           /\ \A i \in 1..Len(agents) : initialized[agents[i]]

\* initialize_all has returned for three agents none of which was initialized
\* before, their initializations having ended in another order than registered.
InitializeAllReturnedFromScratch ==
    \E o \in OpIds :
        /\ ops[o].kind = "init" /\ ops[o].st = "returned"
        /\ Len(ops[o].calls) = 3
        /\ \A i \in 1..3 : ~ops[o].calls[i].initAtCall
        /\ ops[o].order # <<1, 2, 3>>

\* C13: initialize_all can raise as soon as one initialize has failed; it raises
\* an OrchestrationError that wraps the failure which came first; the other
\* initializations are not cancelled: each has ended or can still run; so
\* the agents initialized at that point are those whose initialize happened to
\* have succeeded by then.
InitializeAllFailFastNotAtomic ==
    \A o \in OpIds :
        ops[o].kind \in {"init", "scope"} /\ InInitialize(ops[o]) =>
            /\ (ops[o].st = "active"
                 /\ \E i \in 1..Len(ops[o].calls) : ops[o].calls[i].out.kind = "raise")
                 => ENABLED (InitializeAllResume(o) /\ ops'[o].st = "raised")
            /\ ops[o].st = "raised" =>
                 /\ ops[o].err =
                      InitializeAllFailedError(ops[o].calls[FirstFailed(ops[o])].out.err)
                 /\ \A i \in 1..Len(ops[o].calls) :
                        /\ ops[o].calls[i].pc \in {"start", "done"}
                        /\ ops[o].calls[i].pc = "start" => ENABLED Initialize(o, i)
                        /\ ops[o].calls[i].out.kind = "return"
                             => initialized[ops[o].calls[i].agent]

\* initialize_all has raised on agents none of which was initialized before; of
\* the agents other than the one that failed first, one is initialized and
\* another is not.
PartialInitializationAtFailure ==
    \E o \in OpIds :
        /\ ops[o].kind = "init" /\ ops[o].st = "raised"
        /\ \A i \in 1..Len(ops[o].calls) :
               ops[o].calls[i].pc = "done" => ~ops[o].calls[i].initAtCall
        /\ \E j, k \in 1..Len(ops[o].calls) :
               /\ j # ops[o].first /\ k # ops[o].first
               /\ initialized[ops[o].calls[j].agent]
               /\ ~initialized[ops[o].calls[k].agent]

\* C14: cleanup_all calls cleanup on every registered agent and never raises:
\* whichever cleanups have failed, every other one has ended or can still run,
\* cleanup_all returns only when all have ended, and the caller gets no exception
\* of a cleanup (under "async with", only the exception of the block, if any).
CleanupAllBestEffort ==
    \A o \in OpIds :
        ops[o].kind \in {"cleanup", "scope"} /\ InCleanup(ops[o]) =>
            /\ AgentsOf(ops[o]) = {agents[i] : i \in 1..Len(agents)}
            /\ \A i \in 1..Len(ops[o].calls) :
                   /\ ops[o].calls[i].pc \in {"start", "done"}
                   /\ ops[o].calls[i].pc = "start" => ENABLED Cleanup(o, i)
            /\ ops[o].st # "active" =>
                   \A i \in 1..Len(ops[o].calls) : ops[o].calls[i].pc = "done"
            /\ ops[o].kind = "cleanup" => ops[o].st # "raised" /\ ops[o].err = NoError
            /\ ops[o].kind = "scope" =>
                   ops[o].err = IF ops[o].st = "raised" THEN ops[o].body.err ELSE NoError

\* cleanup_all has returned although the cleanup of one agent failed, and the
\* cleanup of another agent ran after that failure and succeeded.
CleanupAllReturnedDespiteFailure ==
    \E o \in OpIds :
        /\ ops[o].kind = "cleanup" /\ ops[o].st = "returned"
        /\ \E k, l \in 1..Len(ops[o].order) :
               /\ k < l
               /\ ops[o].calls[ops[o].order[k]].out.kind = "raise"
               /\ ops[o].calls[ops[o].order[l]].out.kind = "return"
               /\ ops[o].calls[ops[o].order[l]].initAtCall

\* C15: in the block of "async with coordinator" (of "async with agent") every
\* registered agent (the agent) is initialized, and once the with statement is
\* left, by a return or by an exception of the block, none of them is.
ScopedUseInitializesAndCleansUp ==
    \A o \in OpIds :
        ops[o].kind \in {"scope", "agent"} =>
            /\ ops[o].phase = "body" => \A ag \in AgentsOf(ops[o]) : initialized[ag]
            /\ ops[o].phase = "left" => \A ag \in AgentsOf(ops[o]) : ~initialized[ag]

\* C16: execute_research_workflow issues its search and lookup calls as the one
\* two-entry batch of execute_parallel; it issues the synthesis call, a single
\* execute_agent call for the synthesis agent, only when both of them have
\* returned, with the sources prepared from their results and the token limit in
\* its context; when it returns, exactly three agent calls were made.
ResearchPipelineTwoPhases ==
    wf.kind = "research" =>
        /\ ops[1].kind = "par"
        /\ [i \in 1..Len(ops[1].calls) |-> ops[1].calls[i].name]
             = <<"google-search-agent", "wikipedia-agent">>
        /\ wf.pc = "gathering" => ops[2].st = "idle"
        /\ ops[2].st # "idle" =>
             /\ ops[1].st = "returned"
             /\ \A i \in 1..2 : /\ ops[1].calls[i].pc = "done"
                                /\ ops[1].calls[i].out.kind = "return"
             /\ ops[2].kind = "one"
             /\ Len(ops[2].calls) = 1
             /\ ops[2].calls[1].name = "watsonx-crafter-agent"
             /\ {"source_data", "max_tokens"} \subseteq ops[2].calls[1].context.keys
             /\ ops[2].calls[1].context.source_data
                  = prepare_source_data(SearchContent(web.items), WikiContent(web.article))
             /\ ops[2].calls[1].context.max_tokens = ReportMaxTokens
        /\ wf.pc = "returned" =>
             /\ Cardinality(CallIds) = 3
             /\ \A oi \in CallIds : Invoked(CallAt(oi)) /\ CallAt(oi).out.kind = "return"

\* The workflow has returned; the lookup ended before the search, and the
\* synthesis was given sources of both.
ResearchReturnedAfterThreeCalls ==
    /\ wf.kind = "research" /\ wf.pc = "returned"
    /\ ops[1].order = <<2, 1>>
    /\ Len(ops[2].calls[1].context.source_data) >= 2
    /\ ops[2].calls[1].context.source_data[1].type = "Wikipedia"

\* C17: the source list is one Wikipedia source first exactly when the lookup
\* result has a non-empty extract, then one Web Search source per item of the
\* search results in their order; so its length is the number of items, plus one
\* with an extract, and no entry stands for content that is None.
SourceListAssembly ==
    wf.kind = "research" /\ wf.pc \in {"synthesizing", "returned"} =>
        LET s == wf.source_data
            items == wf.search_results.results
            k == IF Truthy(wf.wiki_data.extract) THEN 1 ELSE 0
        IN /\ Len(s) = k + Len(items)
           /\ k = 1 => /\ s[1].type = "Wikipedia"
                       /\ s[1].title = wf.wiki_data.title
                       /\ s[1].content = wf.wiki_data.extract
           /\ \A i \in 1..Len(items) :
                  /\ s[k + i].type = "Web Search"
                  /\ s[k + i].title = items[i].title
                  /\ s[k + i].url = items[i].link
                  /\ s[k + i].content = items[i].snippet
           /\ \A j \in 1..Len(s) : s[j].content # None

\* The sources of an article with an extract and three search items.
FourSourcesAssembled ==
    /\ wf.kind = "research" /\ wf.pc = "synthesizing"
    /\ Len(wf.source_data) = 4
    /\ wf.source_data[1].type = "Wikipedia"
    /\ wf.source_data[4].title = Text("item title", 3)

\* C18: the metadata of the returned dict has num_search_results equal to the
\* number of items the search agent returned, wikipedia_title equal to the title
\* of the lookup result, and report_tokens equal to the generated_tokens of the
\* synthesis agent; with the stand-in that reports its number of sources, that
\* is the number of items, plus one when the extract is non-empty.
MetadataReportsTheRun ==
    wf.kind = "research" /\ wf.pc = "returned" =>
        LET m == wf.result.metadata
            extract == WikiContent(web.article).extract
        IN /\ m.num_search_results = web.items
           /\ m.wikipedia_title = WikiContent(web.article).title
           /\ ops[2].calls[1].agent = "watsonx" => m.report_tokens = web.tokens
           /\ ops[2].calls[1].agent = "echo" =>
                  m.report_tokens = web.items + (IF Truthy(extract) THEN 1 ELSE 0)

\* Three search items and an article with an extract, synthesized by the
\* stand-in: the count is 3, the title the article's, report_tokens 4.
MetadataOfThreeItemsAndAnExtract ==
    /\ wf.kind = "research" /\ wf.pc = "returned"
    /\ ops[2].calls[1].agent = "echo"
    /\ wf.result.metadata.num_search_results = 3
    /\ wf.result.metadata.wikipedia_title = Text("page title", 0)
    /\ wf.result.metadata.report_tokens = 4

\* C19 as stated: when the lookup result has no title, the metadata carries a
\* marker for it instead of None.
MissingTitleCarriesMarker ==
    wf.kind = "research" /\ wf.pc = "returned" /\ ~Truthy(wf.wiki_data.title) =>
        Truthy(wf.result.metadata.wikipedia_title)

\* C19: when the lookup result has no title, the wikipedia_title of the metadata
\* is None, as in the lookup result; the workflow puts no marker in its place.
MissingTitleStaysNone ==
    wf.kind = "research" /\ wf.pc = "returned" /\ ~Truthy(wf.wiki_data.title) =>
        wf.result.metadata.wikipedia_title = None

\* The workflow has returned for a query the lookup found nothing for.
ReturnedWithoutArticle ==
    /\ wf.kind = "research" /\ wf.pc = "returned"
    /\ web.article = "not_found"
    /\ wf.wiki_data.title = None

\* C20: execute_custom_workflow creates the call of a step only when the calls of
\* all earlier steps have ended, each successfully, in list order; so at most one
\* call of the workflow has not ended at any time, whatever the parallel flags
\* of the steps are.
CustomWorkflowStrictlySequential ==
    \A o \in OpIds :
        ops[o].kind = "custom" =>
            /\ Len(ops[o].calls) <= Len(ops[o].tasks)
            /\ \A i \in 1..Len(ops[o].calls) :
                   /\ ops[o].calls[i].name = ops[o].tasks[i][1]
                   /\ i < Len(ops[o].calls) =>
                          /\ ops[o].calls[i].pc = "done"
                          /\ ops[o].calls[i].out.kind = "return"
            /\ Cardinality({i \in 1..Len(ops[o].calls) : ops[o].calls[i].pc # "done"}) <= 1

\* Two steps, both flagged parallel: the call of the second is in progress, that
\* of the first has ended.
ParallelFlaggedStepsRunInTurn ==
    \E o \in OpIds :
        /\ ops[o].kind = "custom"
        /\ Len(ops[o].tasks) = 2
        /\ ops[o].tasks[1][3] /\ ops[o].tasks[2][3]
        /\ Len(ops[o].calls) = 2
        /\ ops[o].calls[1].pc = "done"
        /\ ops[o].calls[2].pc = "running"

\* The step, counted from 1, whose result Python's results[idx] is when step i,
\* counted from 1, is dispatched with i - 1 results collected.
StepReferred(idx, i) == IF idx >= 0 THEN idx + 1 ELSE i + idx

DependenciesPointBackward ==
    \A o \in OpIds :
        ops[o].kind = "custom" =>
            \A i \in 1..Len(ops[o].calls) :
                \A k \in 1..Len(ops[o].tasks[i][4]) :
                    /\ 0 <= ops[o].tasks[i][4][k]
                    /\ ops[o].tasks[i][4][k] < i - 1

\* C23: when execute_custom_workflow returns, every step has succeeded and the
\* results collected are one per step in step order; it returns the output of
\* the aggregator applied to that list if one was given, else the list with
\* total_steps equal to the number of steps, for the empty step list too.
CustomWorkflowReturnsOrderedResults ==
    \A o \in OpIds :
        ops[o].kind = "custom" /\ ops[o].st = "returned" =>
            LET expected == [i \in 1..Len(ops[o].tasks) |-> ExpectedResult(ops[o], i)] IN
            /\ Len(ops[o].calls) = Len(ops[o].tasks)
            /\ \A i \in 1..Len(ops[o].calls) : ops[o].calls[i].out.kind = "return"
            /\ ops[o].results = expected
            /\ ops[o].aggregator = "Aggregated" => ops[o].value = Aggregated(expected)
            /\ ops[o].aggregator = "None" =>
                   /\ ops[o].value.keys = {"steps", "total_steps"}
                   /\ ops[o].value.steps = expected
                   /\ ops[o].value.total_steps = Len(ops[o].tasks)

\* A workflow of two steps on different agents has returned the output of its
\* aggregator.
AggregatedTwoStepsReturned ==
    \E o \in OpIds :
        /\ ops[o].kind = "custom" /\ ops[o].st = "returned"
        /\ ops[o].aggregator = "Aggregated"
        /\ Len(ops[o].tasks) = 2
        /\ ops[o].tasks[1][1] # ops[o].tasks[2][1]
        /\ Len(ops[o].value.aggregated) = 2

\* C24: the failure raised by execute_agent, execute_parallel or
\* execute_sequential has, among the keys of its details, the name of the agent
\* whose call failed and the task of that call.
FailuresCarryAgentAndTask ==
    \A o \in OpIds :
        ops[o].kind \in {"one", "par", "seq"} /\ ops[o].st = "raised" =>
            /\ {"agent", "task"} \subseteq ops[o].err.details.keys
            /\ \E i \in 1..Len(ops[o].calls) :
                   /\ ops[o].calls[i].out.kind = "raise"
                   /\ ops[o].err.details.agent = ops[o].calls[i].name
                   /\ ops[o].err.details.task = ops[o].calls[i].task

\* C25: unregister_agent of a name that is no key leaves the registry as it was
\* and raises nothing; unregister_agent of a key removes that one entry, keeps
\* every other entry and its order, raises nothing, and get_agent of the name
\* then returns None.
UnregisterRemovesExactlyOne ==
    [][\A name \in Names :
          unregister_agent(name) =>
              /\ last'.err = NoError
              /\ name \notin KeySet(agents) => agents' = agents
              /\ name \in KeySet(agents) =>
                     /\ Len(agents') = Len(agents) - 1
                     /\ KeySet(agents') = KeySet(agents) \ {name}
                     /\ get_agent(agents', name) = NoAgent
                     /\ \A other \in KeySet(agents) \ {name} :
                            get_agent(agents', other) = get_agent(agents, other)
                     /\ \A i, j \in 1..Len(agents') :
                            i < j => \E k, l \in 1..Len(agents) :
                                         /\ k < l
                                         /\ agents[k] = agents'[i]
                                         /\ agents[l] = agents'[j]
              /\ UNCHANGED <<initialized, semaphore, waiters, ops>>]_vars

\* The first of two registered agents was unregistered; the second is still there.
UnregisteredOneOfTwo ==
    /\ last.op = "unregister" /\ last.found # NoAgent
    /\ Len(agents) = 1
    /\ get_agent(agents, last.arg) = NoAgent

\* C26: register_agent of an agent whose name is no key adds that one entry at
\* the end and get_agent of the name returns that agent object; get_agent
\* changes neither the registry nor the semaphore, and returns None for a name
\* that is no key.
RegisterAddsLookupReads ==
    [][/\ \A ag \in AgentObjs :
              register_agent(ag) /\ NameOf(ag) \notin KeySet(agents) =>
                  /\ last'.err = NoError
                  /\ agents' = Append(agents, ag)
                  /\ get_agent(agents', NameOf(ag)) = ag
                  /\ \A other \in KeySet(agents) :
                         get_agent(agents', other) = get_agent(agents, other)
       /\ \A name \in Names :
              lookup(name) =>
                  /\ UNCHANGED <<agents, semaphore, waiters, max_concurrent>>
                  /\ name \notin KeySet(agents) => last'.found = NoAgent
                  /\ name \in KeySet(agents) =>
                         \E i \in 1..Len(agents) :
                             /\ NameOf(agents[i]) = name
                             /\ last'.found = agents[i]]_vars

\* With one agent registered, a name that is no key was looked up and None came back.
LookupOfUnregisteredName ==
    /\ last.op = "lookup" /\ last.arg = "missing-agent"
    /\ last.found = NoAgent
    /\ Len(agents) = 1

-----------------------------------------------------------------------------
(* One caller awaits initialize() and cleanup() of agents it holds, in any order *)

\* The exception classes and the class each one derives from.
Base(cls) ==
    CASE cls \in {"ConfigurationError", "AgentError", "MCPError", "OrchestrationError",
                  "ToolExecutionError", "ValidationError", "AuthenticationError",
                  "NetworkError"} -> "AgenticAIError"
      [] cls = "AgenticAIError" -> "Exception"
      [] cls \in {"IndexError", "KeyError", "AttributeError"} -> "Exception"
      [] OTHER -> "BaseException"

\* isinstance(e, cls), which is what "except cls" tests.
RECURSIVE IsSubclass(_, _)
IsSubclass(c, cls) ==
    IF c = cls THEN TRUE
    ELSE IF c = "BaseException" THEN FALSE
    ELSE IsSubclass(Base(c), cls)

IsInstance(e, cls) == IsSubclass(e.type, cls)

\* A wikipedia agent, a WatsonX agent and a MockAgent.
LifecycleAgents == {"wiki", "watsonx", "mock1"}

\* No lifecycle method of the agent was awaited yet.
NoLifecycleCall == [op |-> "none", err |-> NoError, before |-> "none", beforeFailed |-> FALSE]

\* await agent.initialize()
CallInitialize(ag, how) ==
    /\ initialized' = initialize(ag, initialized, how).init
    /\ last' = [last EXCEPT ![ag] =
                   [op |-> "initialize",
                    err |-> IF initialize(ag, initialized, how).out.kind = "raise"
                            THEN initialize(ag, initialized, how).out.err ELSE NoError,
                    before |-> last[ag].op, beforeFailed |-> last[ag].err # NoError]]
    /\ UNCHANGED <<agents, max_concurrent, semaphore, waiters, ops, web, wf>>

\* await agent.cleanup()
CallCleanup(ag, how) ==
    /\ initialized' = cleanup(ag, initialized, how).init
    /\ last' = [last EXCEPT ![ag] =
                   [op |-> "cleanup",
                    err |-> IF cleanup(ag, initialized, how).out.kind = "raise"
                            THEN cleanup(ag, initialized, how).out.err ELSE NoError,
                    before |-> last[ag].op, beforeFailed |-> last[ag].err # NoError]]
    /\ UNCHANGED <<agents, max_concurrent, semaphore, waiters, ops, web, wf>>

\* Newly constructed agents, held by no coordinator.
InitAgent ==
    /\ agents = <<>>
    /\ initialized = [ag \in AllAgentObjs |-> FALSE]
    /\ max_concurrent = MaxConcurrent
    /\ semaphore = max_concurrent
    /\ waiters = <<>>
    /\ ops = [o \in OpIds |-> IdleOp]
    /\ last = [ag \in LifecycleAgents |-> NoLifecycleCall]
    /\ web = NoWeb
    /\ wf = NoWorkflow

NextAgent ==
    \/ \E ag \in LifecycleAgents :
           \E how \in InitializeOutcomes(ag) : CallInitialize(ag, how)
    \/ \E ag \in LifecycleAgents :
           \E how \in CleanupOutcomes(ag, initialized) : CallCleanup(ag, how)

SpecAgent == InitAgent /\ [][NextAgent]_vars

\* C27: agent.cleanup() awaited while the agent is not initialized (it never
\* was, its initialize failed, or an earlier cleanup returned) raises nothing
\* and leaves _initialized False, so the agent holds no client.
CleanupSafeWhenNotInitialized ==
    [][\A ag \in LifecycleAgents :
          \A how \in CleanupOutcomes(ag, initialized) :
              CallCleanup(ag, how) /\ ~initialized[ag] =>
                  /\ last'[ag].err = NoError
                  /\ ~initialized'[ag]
                  /\ CleanupOutcomes(ag, initialized') = {"ok"}
                  /\ \A other \in LifecycleAgents \ {ag} :
                         initialized'[other] = initialized[other]]_vars

\* cleanup returned for a MockAgent that was never initialized, for a WatsonX
\* agent whose initialize had failed, and for a wikipedia agent a second time.
CleanupReturnedInThreeStates ==
    /\ last["mock1"].op = "cleanup" /\ last["mock1"].before = "none"
    /\ last["mock1"].err = NoError
    /\ last["watsonx"].op = "cleanup" /\ last["watsonx"].before = "initialize"
    /\ last["watsonx"].beforeFailed /\ last["watsonx"].err = NoError
    /\ last["wiki"].op = "cleanup" /\ last["wiki"].before = "cleanup"
    /\ ~last["wiki"].beforeFailed /\ last["wiki"].err = NoError
    /\ \A ag \in LifecycleAgents : ~initialized[ag]

\* C28: every AuthenticationError an agent raises is an instance of AgentError,
\* so "except AgentError" handles it, and its class tells it apart.
AuthenticationFailureIsAgentFailure ==
    \A ag \in LifecycleAgents :
        last[ag].err # NoError /\ last[ag].err.type = "AuthenticationError" =>
            IsInstance(last[ag].err, "AgentError")

-----------------------------------------------------------------------------
(* Construction: AgentCoordinator(max_concurrent), then use of the new coordinator *)

\* Settings.max_concurrent_agents: its default and its lower limit (ge=1).
DefaultMaxConcurrentAgents == 5

MinConcurrentAgents == 1

\* Values the configuration can give to max_concurrent_agents.
ConfiguredDefaults == {MinConcurrentAgents, DefaultMaxConcurrentAgents}

\* The argument max_concurrent: an int, or None when it is left out.
Arg(n) == [given |-> TRUE, value |-> n]

NoArg == [given |-> FALSE, value |-> 0]

Args == {NoArg} \cup {Arg(n) : n \in -1..MaxConcurrent}

\* Python truth of the argument: None and 0 are false.
ArgTruthy(arg) == arg.given /\ arg.value # 0

\* asyncio.Semaphore(value) with a negative value.
SemaphoreValueError ==
    [type |-> "ValueError", message |-> "Semaphore initial value must be >= 0",
     details |-> NoDetails]

\* A constructor that takes the default only for a missing argument.
ConstructDefaultForNoneOnly(arg, default) ==
    LET n == IF arg.given THEN arg.value ELSE default
    IN  [agents |-> <<>>, max_concurrent |-> n,
         semaphore |-> IF n < 0 THEN 0 ELSE n,
         err |-> IF n < 0 THEN SemaphoreValueError ELSE NoError]

\* AgentCoordinator.__init__: the fields of the new object and the exception raised.
Construct(arg, default) ==
    LET n == IF ArgTruthy(arg) THEN arg.value ELSE default
    IN  [agents |-> <<>>, max_concurrent |-> n,
         semaphore |-> IF n < 0 THEN 0 ELSE n,
         err |-> IF n < 0 THEN SemaphoreValueError ELSE NoError]

\* coordinator = AgentCoordinator(arg) while the settings hold default.
AgentCoordinator(arg, default) ==
    /\ last.op = "none"
    /\ agents' = Construct(arg, default).agents
    /\ max_concurrent' = Construct(arg, default).max_concurrent
    /\ semaphore' = Construct(arg, default).semaphore
    /\ last' = [op |-> "construct", arg |-> "max_concurrent", found |-> NoAgent,
                err |-> Construct(arg, default).err, value |-> arg]
    /\ UNCHANGED <<initialized, waiters, ops, web, wf>>

\* A coordinator exists: the constructor was called and raised nothing.
Constructed == last.op # "none" /\ ~(last.op = "construct" /\ last.err # NoError)

\* No coordinator yet; the agent objects exist, all initialized or none.
InitConstruct ==
    /\ agents = <<>>
    /\ initialized \in {[ag \in AgentObjs |-> FALSE], [ag \in AgentObjs |-> TRUE]}
    /\ max_concurrent = 0
    /\ semaphore = 0
    /\ waiters = <<>>
    /\ ops = [o \in OpIds |-> IdleOp]
    /\ last = NoCall
    /\ web = NoWeb
    /\ wf = NoWorkflow

NextConstruct ==
    \/ \E arg \in Args, default \in ConfiguredDefaults : AgentCoordinator(arg, default)
    \/ Constructed /\ \E ag \in AgentObjs : register_agent(ag)
    \/ Constructed /\ \E name \in Names : unregister_agent(name)
    \/ Constructed /\ \E name \in Names : execute_agent(1, name)
    \/ Constructed /\ Start(1, 1)
    \/ Constructed /\ Complete(1, 1)

SpecConstruct == InitConstruct /\ [][NextConstruct]_vars

\* C29: AgentCoordinator(n) with n > 0 has max_concurrent n, a semaphore of n
\* permits and an empty registry; without an argument, or with 0, it has the
\* configured default; with a negative n it raises; every coordinator that was
\* constructed has max_concurrent >= 1.
ConstructedBoundIsPositive ==
    [][\A arg \in Args, default \in ConfiguredDefaults :
          AgentCoordinator(arg, default) =>
              /\ arg.given /\ arg.value > 0 =>
                     /\ last'.err = NoError
                     /\ max_concurrent' = arg.value
              /\ ~arg.given \/ arg.value = 0 =>
                     /\ last'.err = NoError
                     /\ max_concurrent' = default
              /\ arg.given /\ arg.value < 0 => last'.err # NoError
              /\ last'.err = NoError =>
                     /\ max_concurrent' >= 1
                     /\ semaphore' = max_concurrent'
                     /\ agents' = <<>>]_vars

\* AgentCoordinator(0) was constructed with the default of the settings.
ConstructedFromZero ==
    /\ last.op = "construct" /\ last.value = Arg(0)
    /\ last.err = NoError
    /\ max_concurrent = DefaultMaxConcurrentAgents
    /\ agents = <<>>

\* An execute_parallel call with more entries than the coordinator has permits.
OversizeBatch(o) == ops[o].kind = "par" /\ Len(ops[o].calls) > max_concurrent

\* C30: with fair scheduling and agent calls that end, every entry of an
\* execute_parallel batch larger than max_concurrent eventually acquires a
\* permit and has agent.execute invoked, and the batch call eventually returns
\* or raises.
OversizeBatchEveryEntryRuns ==
    \A o \in OpIds :
        /\ \A i \in 1..MaxCalls :
               (OversizeBatch(o) /\ i <= Len(ops[o].calls))
                   ~> (i <= Len(ops[o].calls) /\ Invoked(ops[o].calls[i]))
        /\ OversizeBatch(o) ~> (ops[o].st \in {"returned", "raised"})

\* The same for the entries that can take a permit: every entry of an oversize
\* batch eventually ends, having had agent.execute invoked when its name is
\* registered, and the batch call eventually returns or raises.
OversizeBatchEveryEntryEnds ==
    \A o \in OpIds :
        /\ \A i \in 1..MaxCalls :
               (OversizeBatch(o) /\ i <= Len(ops[o].calls))
                   ~> (/\ i <= Len(ops[o].calls)
                       /\ ops[o].calls[i].pc = "done"
                       /\ ops[o].calls[i].name \in KeySet(agents) =>
                              Invoked(ops[o].calls[i]))
        /\ OversizeBatch(o) ~> (ops[o].st \in {"returned", "raised"})

\* The second entry of a batch of two is queued for the one permit its sibling holds.
EntryQueuedBehindSibling ==
    \E o \in OpIds :
        /\ OversizeBatch(o)
        /\ Len(ops[o].calls) = 2
        /\ ops[o].calls[1].pc = "running"
        /\ ops[o].calls[2].pc = "waiting"
        /\ waiters = <<<<o, 2>>>>

\* C36: execute_agent with a name that is no key raises "not found" in its
\* first step, whatever the semaphore holds: it takes no permit, joins no
\* queue, invokes no agent, and leaves the registry and the agents as they were.
NotFoundFailsBeforePermit ==
    [][\A o \in OpIds :
          /\ ops[o].kind = "one"
          /\ Start(o, 1)
          /\ ops[o].calls[1].name \notin KeySet(agents)
          => /\ ops'[o].st = "raised"
             /\ ops'[o].err = NotFoundError(agents, ops[o].calls[1].name)
             /\ ops'[o].calls[1].pc = "done"
             /\ ~Invoked(ops'[o].calls[1])
             /\ semaphore' = semaphore
             /\ waiters' = waiters
             /\ agents' = agents
             /\ initialized' = initialized
             /\ \A p \in OpIds \ {o} : ops'[p] = ops[p]]_vars

\* execute_agent failed with "not found" while another call held the only permit.
NotFoundWhilePermitsHeld ==
    \E o \in OpIds :
        /\ ops[o].kind = "one" /\ ops[o].st = "raised"
        /\ ops[o].err.type = "OrchestrationError"
        /\ "registered_agents" \in ops[o].err.details.keys
        /\ semaphore = 0
        /\ Running # {}

-----------------------------------------------------------------------------
(* Callers of execute_agent while the registry shrinks and agents are cleaned up *)

\* await agent.cleanup() by the owner of a registered or unregistered agent.
agent_cleanup(ag, how) ==
    /\ initialized' = cleanup(ag, initialized, how).init
    /\ UNCHANGED <<agents, max_concurrent, semaphore, waiters, ops, last, web, wf>>

NextQueued ==
    \/ \E o \in OpIds, name \in Names : execute_agent(o, name)
    \/ \E o \in OpIds : Start(o, 1)
    \/ \E o \in OpIds : Resume(o, 1)
    \/ \E o \in OpIds : Complete(o, 1)
    \/ \E name \in KeySet(agents) : unregister_agent(name)
    \/ \E ag \in AgentObjs :
           \E how \in CleanupOutcomes(ag, initialized) : agent_cleanup(ag, how)

SpecQueued == Init /\ [][NextQueued]_vars

\* C37: a call queued for a permit invokes agent.execute, when it gets the
\* permit, on the agent object its lookup found: the registry is not read
\* again, so the call does not fail with "not found" when the name was
\* unregistered meanwhile; when that agent validates and is not initialized by
\* then, the call raises the wrapped not-initialized AgentError.
QueuedCallKeepsItsAgent ==
    [][\A o \in OpIds :
          Resume(o, 1) =>
              LET c == ops[o].calls[1]
                  c2 == ops'[o].calls[1]
              IN /\ c.agent # NoAgent
                 /\ c2.agent = c.agent
                 /\ Invoked(c2)
                 /\ c2.initAtCall = initialized[c.agent]
                 /\ Validates(c.agent) /\ ~initialized[c.agent] =>
                        /\ c2.pc = "done"
                        /\ c2.inner = Raise(NotInitializedError(c.agent))
                        /\ c2.out = Raise(ExecutionFailedError(c.name, c.task,
                                                               NotInitializedError(c.agent)))
                 /\ ~(Validates(c.agent) /\ ~initialized[c.agent]) => c2.pc = "running"]_vars

\* A call on the wikipedia agent ran while the agent was initialized; a second
\* one, queued behind it, ended with the not-initialized failure of that agent,
\* whose name is no key any more.
QueuedCallRanOnUnregisteredAgent ==
    /\ ops[1].kind = "one" /\ ops[2].kind = "one"
    /\ ops[1].calls[1].agent = "wiki" /\ ops[1].calls[1].initAtCall
    /\ ops[2].calls[1].agent = "wiki" /\ ops[2].calls[1].pc = "done"
    /\ ~ops[2].calls[1].initAtCall
    /\ ops[2].calls[1].inner = Raise(NotInitializedError("wiki"))
    /\ "wikipedia-agent" \notin KeySet(agents)

-----------------------------------------------------------------------------
(* The life of a coordinator: lifecycle calls and executions, one after the other
   or at the same time *)

\* Every call made so far is over and the application goes on: it keeps of
\* them only which entry point it called last and how that call ended.
Forget ==
    /\ ops[1].st # "idle"
    /\ \A o \in OpIds : ops[o].st = "idle" \/ Quiescent(ops[o])
    /\ LET o == CHOOSE p \in OpIds :
                    ops[p].st # "idle" /\ \A q \in OpIds : q > p => ops[q].st = "idle"
       IN last' = [op |-> ops[o].kind, arg |-> ops[o].st, found |-> NoAgent, err |-> ops[o].err]
    /\ ops' = [o \in OpIds |-> IdleOp]
    /\ UNCHANGED <<agents, initialized, max_concurrent, semaphore, waiters, web, wf>>

\* The application makes a lifecycle call, then executions that may overlap it.
NextLifetime ==
    \/ initialize_all(1)
    \/ cleanup_all(1)
    \/ \E i \in 1..Len(agents) : Initialize(1, i)
    \/ \E i \in 1..Len(agents) : Cleanup(1, i)
    \/ InitializeAllResume(1)
    \/ CleanupAllResume(1)
    \/ \E o \in OpIds, name \in Names : execute_agent(o, name)
    \/ \E o \in OpIds : ops[o].kind = "one" /\ Start(o, 1)
    \/ \E o \in OpIds : ops[o].kind = "one" /\ Resume(o, 1)
    \/ \E o \in OpIds : ops[o].kind = "one" /\ Complete(o, 1)
    \/ Forget

SpecLifetime == Init /\ [][NextLifetime]_vars

\* C39: cleanup_all leaves the registry as it is; when it returns and every
\* cleanup has returned, every registered agent is not initialized.  That state
\* is no end: an initialize that returns afterwards makes its agent initialized,
\* and execute_agent on an agent that is initialized when called returns its
\* result when the agent's request succeeds.
CleanedUpIsNotTerminal ==
    [][/\ cleanup_all(1) => agents' = agents
       /\ (/\ CleanupAllResume(1)
           /\ \A i \in 1..Len(ops[1].calls) : ops[1].calls[i].out.kind = "return")
          => /\ ops'[1].st = "returned"
             /\ agents' = agents
             /\ Len(ops[1].calls) = Len(agents)
             /\ \A i \in 1..Len(agents) : ~initialized'[agents[i]]
       /\ \A i \in 1..Len(agents) :
              Initialize(1, i) /\ ops'[1].calls[i].out.kind = "return" =>
                  initialized'[ops[1].calls[i].agent]
       /\ \A o \in OpIds :
              (/\ ops[o].kind = "one"
               /\ Complete(o, 1)
               /\ ops'[o].calls[1].initAtCall
               /\ ops'[o].calls[1].down = "ok")
              => /\ ops'[o].st = "returned"
                 /\ ops'[o].value = <<Result(ops[o].calls[1].agent, ops[o].calls[1].task)>>]_vars

\* After a cleanup_all that returned, initialize_all found both agents not
\* initialized and returned, and execute_agent on the wikipedia agent returned.
CleanedUpThenUsedAgain ==
    /\ last.op = "cleanup" /\ last.arg = "returned"
    /\ ops[1].kind = "init" /\ ops[1].st = "returned"
    /\ \A i \in 1..Len(ops[1].calls) : ~ops[1].calls[i].initAtCall
    /\ initialized["wiki"] /\ initialized["mock1"]
    /\ ops[2].kind = "one" /\ ops[2].st = "returned"
    /\ ops[2].value = <<Result("wiki", TaskText(1))>>

\* C40: initialize_all and cleanup_all create one coroutine per registered
\* agent at once, and each of these coroutines runs in one step whatever the
\* semaphore holds: none takes a permit or queues for one, and a created
\* coroutine can always run.
LifecycleTakesNoPermit ==
    [][/\ initialize_all(1) \/ cleanup_all(1) =>
              /\ Len(ops'[1].calls) = Len(agents)
              /\ \A i \in 1..Len(agents) : ops'[1].calls[i].pc = "start"
              /\ UNCHANGED <<semaphore, waiters>>
       /\ \A i \in 1..Len(agents) :
              /\ Initialize(1, i) \/ Cleanup(1, i) =>
                     /\ ops'[1].calls[i].pc = "done"
                     /\ UNCHANGED <<semaphore, waiters>>
              /\ (/\ ops[1].kind \in {"init", "cleanup"}
                  /\ i <= Len(ops[1].calls)
                  /\ ops[1].calls[i].pc = "start")
                 => ENABLED (Initialize(1, i) \/ Cleanup(1, i))
       /\ InitializeAllResume(1) \/ CleanupAllResume(1) =>
              UNCHANGED <<semaphore, waiters>>]_vars

\* cleanup_all cleaned both agents of a coordinator with one permit and returned
\* while execute_agent, entered when the wikipedia agent was initialized, held
\* that permit.
CleanupRanWhilePermitHeld ==
    /\ ops[1].kind = "cleanup" /\ ops[1].st = "returned"
    /\ Len(ops[1].calls) = 2 /\ max_concurrent = 1
    /\ semaphore = 0
    /\ ops[2].kind = "one"
    /\ ops[2].calls[1].pc = "running"
    /\ ops[2].calls[1].agent = "wiki" /\ ops[2].calls[1].initAtCall
    /\ ~initialized["wiki"] /\ ~initialized["mock1"]

\* C35: when initialize_all fails inside __aenter__ of "async with coordinator",
\* the wrapped failure leaves the with statement, the block is not entered and
\* __aexit__ is not called: no cleanup coroutine is created, and from then on
\* no agent that is initialized stops being so.
FailedEntrySkipsCleanup ==
    [][/\ (ops[1].kind = "scope" /\ InitializeAllResume(1) /\ ops[1].first # 0) =>
              /\ ops'[1].phase = "failed"
              /\ ops'[1].st = "raised"
              /\ ops'[1].err = InitializeAllFailedError(ops[1].calls[ops[1].first].out.err)
              /\ ops'[1].calls = ops[1].calls
              /\ ops'[1].body = Pending
              /\ initialized' = initialized
       /\ (ops[1].kind = "scope" /\ ops[1].phase = "failed") =>
              /\ ops'[1].phase = "failed"
              /\ ~InCleanup(ops'[1])
              /\ \A ag \in AllAgentObjs : initialized[ag] => initialized'[ag]]_vars

\* Entering the coordinator's with statement failed on agents none of which was
\* initialized before; every initialize has ended and one of the agents is
\* initialized.
ScopeEntryFailedLeavingAgentInitialized ==
    /\ ops[1].kind = "scope" /\ ops[1].phase = "failed" /\ ops[1].st = "raised"
    /\ \A i \in 1..Len(ops[1].calls) :
           ops[1].calls[i].pc = "done" /\ ~ops[1].calls[i].initAtCall
    /\ \E i \in 1..Len(ops[1].calls) :
           /\ ops[1].calls[i].out.kind = "return"
           /\ initialized[ops[1].calls[i].agent]

\* C33: when the call of a step of execute_custom_workflow raises, the workflow
\* raises that exception: the failed step is the last one dispatched, the steps
\* before it have returned, and the caller receives neither the results
\* collected nor an output of the aggregator.
CustomWorkflowStopsAtFailedStep ==
    \A o \in OpIds :
        ops[o].kind = "custom" =>
            \A k \in 1..Len(ops[o].calls) :
                ops[o].calls[k].out.kind = "raise" =>
                    /\ ops[o].st = "raised"
                    /\ ops[o].err = ops[o].calls[k].out.err
                    /\ Len(ops[o].calls) = k
                    /\ \A j \in 1..(k - 1) : ops[o].calls[j].out.kind = "return"
                    /\ ops[o].value = <<>>

\* The second of two steps failed after the first had returned, in a workflow
\* that was given an aggregator.
SecondStepFailedAfterFirstReturned ==
    \E o \in OpIds :
        /\ ops[o].kind = "custom" /\ ops[o].st = "raised"
        /\ ops[o].aggregator = "Aggregated"
        /\ Len(ops[o].calls) = 2
        /\ ops[o].calls[1].out.kind = "return"
        /\ ops[o].calls[2].out.kind = "raise"

\* C34: when a call of the fan-out of execute_research_workflow raises, be it
\* because "google-search-agent" is no key of the registry, the workflow ends
\* by raising the OrchestrationError of execute_parallel: the synthesis call is
\* never created and the caller receives no dict.
FanOutFailureFailsPipeline ==
    wf.kind = "research" =>
        /\ (\/ "google-search-agent" \notin KeySet(agents)
            \/ \E i \in 1..Len(ops[1].calls) : ops[1].calls[i].out.kind = "raise")
           => /\ ops[1].st \in {"active", "raised"}
              /\ ops[2] = IdleOp
              /\ wf.pc \in {"gathering", "raised"}
              /\ wf.result = NoDict
        /\ (wf.pc = "raised" /\ ops[2] = IdleOp) =>
              /\ wf.err = ops[1].err
              /\ wf.err.type = "OrchestrationError"
              /\ wf.err.message.fmt = "Parallel execution failed: {}"

\* On a coordinator without the search agent the workflow has raised, although
\* the wikipedia call returned its article.
PipelineFailedWithoutSearchAgent ==
    /\ wf.kind = "research" /\ wf.pc = "raised"
    /\ "google-search-agent" \notin KeySet(agents)
    /\ ops[1].calls[1].out = Raise(NotFoundError(agents, "google-search-agent"))
    /\ ops[1].calls[2].out.kind = "return"
    /\ ops[2] = IdleOp

-----------------------------------------------------------------------------
(* A caller runs a list of steps, some with a context mapping of their own, then
   runs the same list again *)

\* Steps without a context and steps with a context mapping that is empty.
StepDefsWithContext ==
    [agent : Names, parallel : {FALSE}, depends_on : {<<>>, <<0>>},
     context : {NoStepContext, [NoStepContext EXCEPT !.given = TRUE]}]

\* await engine.execute_custom_workflow(steps) once more, with the list of step
\* dicts of the run that ended.
execute_custom_workflow_again ==
    /\ ops[1].kind = "custom"
    /\ ops[1].phase = "none"
    /\ Quiescent(ops[1])
    /\ ops[1].tasks # <<>>
    /\ ops' = [ops EXCEPT ![1] =
                 CustomIteration([IdleOp EXCEPT !.kind = "custom", !.st = "active",
                                                !.phase = "again",
                                                !.aggregator = ops[1].aggregator,
                                                !.tasks = ops[1].tasks], 1)]
    /\ UNCHANGED <<agents, initialized, max_concurrent, semaphore, waiters, last, web, wf>>

NextRerun ==
    \/ \E n \in 0..MaxCalls :
          /\ MaySubmit(1, n)
          /\ \E steps \in [1..n -> StepDefsWithContext] :
                 execute_custom_workflow(1, steps, "None")
    \/ execute_custom_workflow_again
    \/ \E i \in 1..MaxCalls : Start(1, i)
    \/ \E i \in 1..MaxCalls : Complete(1, i)

SpecRerun == Init /\ [][NextRerun]_vars

\* C38: once a step with a depends_on list and a context mapping of the caller
\* has been dispatched, that mapping holds previous_results, the same list the
\* call was given, one entry per index of depends_on, in a second run of the
\* step list as in the first; a step without depends_on, and a step not yet
\* dispatched in the first run, has no such key; a list under the key never has
\* more entries than depends_on, and no mapping is made for a step that has none.
DependenciesInjectedInPlace ==
    \A o \in OpIds :
        ops[o].kind = "custom" =>
            \A i \in 1..Len(ops[o].tasks) :
                LET depends_on == ops[o].tasks[i][4]
                    context == ops[o].tasks[i][5]
                IN /\ ~context.given => context = NoStepContext
                   /\ (i <= Len(ops[o].calls) /\ depends_on # <<>> /\ context.given) =>
                          /\ "previous_results" \in context.keys
                          /\ context.previous_results =
                                 ops[o].calls[i].context.previous_results
                          /\ Len(context.previous_results) = Len(depends_on)
                   /\ (depends_on = <<>> \/ (ops[o].phase = "none" /\ i > Len(ops[o].calls))) =>
                          "previous_results" \notin context.keys
                   /\ "previous_results" \in context.keys =>
                          Len(context.previous_results) = Len(depends_on)

\* The second run of two steps has returned; the context mapping of the second
\* step, which depends on the first, holds the first step's result, once.
SecondRunOverwroteInjectedResults ==
    /\ ops[1].kind = "custom" /\ ops[1].phase = "again" /\ ops[1].st = "returned"
    /\ Len(ops[1].tasks) = 2
    /\ ops[1].tasks[2][4] = <<0>>
    /\ ops[1].tasks[2][5].given
    /\ ops[1].tasks[2][5].previous_results = <<ops[1].calls[1].out.value>>

-----------------------------------------------------------------------------
(* Workflows that share one coordinator, every coroutine being scheduled and
   every agent call ending *)

\* The application runs the research workflow, or custom workflows side by
\* side, on one coordinator.
NextPipelines ==
    \/ (\A o \in OpIds : ops[o].st = "idle") /\ execute_research_workflow
    \/ \E o \in OpIds, n \in 1..MaxCalls :
          /\ MaySubmit(o, n)
          /\ wf.kind = "none"
          /\ \E steps \in [1..n -> [agent : Names, parallel : {FALSE}, depends_on : {<<>>}]] :
                 execute_custom_workflow(o, steps, "None")
    \/ \E o \in OpIds, i \in 1..MaxCalls : Start(o, i)
    \/ \E o \in OpIds, i \in 1..MaxCalls : Resume(o, i)
    \/ \E o \in OpIds, i \in 1..MaxCalls : Complete(o, i)
    \/ \E o \in OpIds : GatherResume(o)
    \/ ResearchGathered
    \/ ResearchSynthesized

\* The event loop runs every coroutine that is ready, and every agent call ends.
FairnessPipelines ==
    /\ \A o \in OpIds, i \in 1..MaxCalls :
           WF_vars(Start(o, i)) /\ WF_vars(Resume(o, i)) /\ WF_vars(Complete(o, i))
    /\ \A o \in OpIds : WF_vars(GatherResume(o))
    /\ WF_vars(ResearchGathered)
    /\ WF_vars(ResearchSynthesized)

\* The search service and the model answer in full; whether the article is
\* found varies, and with it whether the Wikipedia call returns.
InitPipelines == InitResearch /\ web.items = MaxItems /\ web.tokens = MaxTokens

SpecPipelines == InitPipelines /\ [][NextPipelines]_vars /\ FairnessPipelines

-----------------------------------------------------------------------------
(* One execution, lifecycle or workflow operation, and one register_agent or
   unregister_agent call of the application while it runs or after it *)

NextFrame ==
    \/ \E ag \in AgentObjs :
          last.op = "none" /\ ops[1].st # "idle" /\ register_agent(ag)
    \/ \E name \in Names :
          last.op = "none" /\ ops[1].st # "idle" /\ unregister_agent(name)
    \/ \E name \in Names : execute_agent(1, name)
    \/ \E names \in SeqsUpTo(Names, MaxCalls) : execute_parallel(1, names)
    \/ \E names \in SeqsUpTo(Names, MaxCalls) : execute_sequential(1, names)
    \/ initialize_all(1)
    \/ cleanup_all(1)
    \/ (\A o \in OpIds : ops[o].st = "idle") /\ execute_research_workflow
    \/ \E n \in 0..MaxCalls :
          /\ MaySubmit(1, n)
          /\ \E steps \in [1..n -> [agent : Names, parallel : {FALSE}, depends_on : {<<>>}]] :
                 execute_custom_workflow(1, steps, "None")
    \/ \E o \in OpIds, i \in 1..MaxCalls :
          ops[o].kind \in {"one", "par", "seq", "custom"} /\ Start(o, i)
    \/ \E o \in OpIds, i \in 1..MaxCalls : Resume(o, i)
    \/ \E o \in OpIds, i \in 1..MaxCalls : Complete(o, i)
    \/ GatherResume(1)
    \/ \E i \in 1..Len(ops[1].calls) : Initialize(1, i)
    \/ \E i \in 1..Len(ops[1].calls) : Cleanup(1, i)
    \/ InitializeAllResume(1)
    \/ CleanupAllResume(1)
    \/ ResearchGathered
    \/ ResearchSynthesized

SpecFrame == InitPipelines /\ [][NextFrame]_vars

\* C32: a step that changes the registry is a register_agent or an
\* unregister_agent call of the application and belongs to no execution,
\* lifecycle or workflow operation: it leaves every operation, the permits and
\* the queue as they are.
RegistryChangesOnlyByRegisterAndUnregister ==
    [][agents' # agents =>
         /\ \/ \E ag \in AgentObjs : register_agent(ag)
            \/ \E name \in Names : unregister_agent(name)
         /\ UNCHANGED <<ops, wf, semaphore, waiters, initialized>>]_vars

\* The research workflow has returned on a coordinator whose registry was
\* changed by the application meanwhile.
WorkflowReturnedOnChangedRegistry ==
    /\ wf.kind = "research" /\ wf.pc = "returned"
    /\ last.op \in {"register", "unregister"}
    /\ last.err = NoError

====
